---- MODULE Spec2Model ----
(***************************************************************************)
(* hipocap: the multi-stage guard pipeline (GuardPipeline.analyze) and the *)
(* policy evaluator (Config) that gates it.                                *)
(*                                                                         *)
(* One request is followed from the moment the route handler loads a       *)
(* policy into the pipeline until analyze returns a response (or raises).  *)
(* Every call to the classifier or to the chat completer is a step whose   *)
(* answer is drawn from a bounded set.                                     *)
(*                                                                         *)
(* Scores are fixed-point numbers: the integer n stands for n / 10^8, so   *)
(* that every weighted blend the code computes is exact.                   *)
(***************************************************************************)
EXTENDS Integers, Sequences, FiniteSets, TLC

VARIABLES
    pipe,                   \* the constructed GuardPipeline (flags set by __init__)
    policy,                 \* pipeline.config.config while the request runs
    req,                    \* the arguments of analyze
    pc,                     \* position of the request inside analyze
    input_result,           \* input_result
    llm_analysis_result,    \* llm_analysis_result
    quarantine_result,      \* quarantine_result
    ran,                    \* the stages entered so far, in order
    calls,                  \* every completer call made so far, in order
    response,               \* the dict analyze returns
    shared,                 \* config and custom_prompts of the global _pipeline
    handler,                \* the locals of the route handler that is running
    before,                 \* `shared` as the running handler found it
    db,                     \* the committed governance_policies table
    session,                \* the open database session of each request
    call,                   \* a call of a Config method: arguments and return value
    traces,                 \* the analysis_traces table
    job                     \* the request that is writing or reviewing a trace

\* the variables of GuardPipeline.analyze
analyzeVars == <<pipe, policy, req, pc, input_result, llm_analysis_result,
                 quarantine_result, ran, calls, response>>

\* the variables of the route handlers around the global pipeline
routeVars == <<shared, handler, before>>

\* the variables of the policy store
storeVars == <<db, session>>

\* the variable of the policy evaluator called on its own
evalVars == <<call>>

\* the variables of the trace store
traceVars == <<traces, job>>

\* what a step inside analyze never touches
outside == <<routeVars, storeVars, evalVars, traceVars>>

vars == <<analyzeVars, routeVars, storeVars, evalVars, traceVars>>

----------------------------------------------------------------------------
(* Fixed point                                                             *)

\* p hundredths as a score: Pct(70) is 0.70
Pct(p) == p * 1000000

\* x * (w / 100), exact for the scores of this model (all multiples of 100)
Weighted(x, w) == (x \div 100) * w

Min(a, b) == IF a <= b THEN a ELSE b
Max(a, b) == IF a >= b THEN a ELSE b

\* Python's None, and a key that is missing from a dict
None == "None"
Missing == "Missing"

----------------------------------------------------------------------------
(* Names used by the requests and the policies of this model               *)

Fn == "web_search"          \* function_name of the request
Target == "exec"            \* target_function of the request, when present
OtherFn == "web_fetch"      \* a third function, named only by policies
Role == "user"              \* user_role of the request, when present
Star == "*"

Severities == {"safe", "low", "medium", "high", "critical"}

\* the severity table written upside down
severity_order_reversed(s) ==
    CASE s = "safe" -> 4 [] s = "low" -> 3 [] s = "medium" -> 2
      [] s = "high" -> 1 [] OTHER -> 0

\* severity_order = {"safe": 0, ..., "critical": 4}; .get(x, 0) for the rest
severity_order(s) ==
    CASE s = "safe" -> 0
      [] s = "low" -> 1
      [] s = "medium" -> 2
      [] s = "high" -> 3
      [] s = "critical" -> 4
      [] OTHER -> 0

\* the empty dict
EmptyDict == [k \in {} |-> None]

----------------------------------------------------------------------------
(* Policy sections.  The first choice of each section is the one           *)
(* PolicyRepository.build_default_config produces, restricted to the       *)
(* names above.                                                            *)

Rule(block, use) == [block |-> block, allow_output_use |-> use]

DefaultSeverityRules ==
    [s \in Severities |->
        CASE s \in {"safe", "low", "medium"} -> Rule(FALSE, TRUE)
          [] OTHER -> Rule(TRUE, FALSE)]

SeverityRulesChoices ==
    { DefaultSeverityRules,
      \* nothing blocks
      [s \in Severities |-> Rule(FALSE, TRUE)],
      \* medium blocks as well
      [DefaultSeverityRules EXCEPT !["medium"] = Rule(TRUE, FALSE)],
      \* high is allowed through, but its output may not be used
      [DefaultSeverityRules EXCEPT !["high"] = Rule(FALSE, FALSE)] }

DefaultRoles == [r \in {Role} |-> [permissions |-> {Fn}]]

RolesChoices ==
    { DefaultRoles,
      EmptyDict,
      [r \in {Role} |-> [permissions |-> {}]],
      [r \in {Role} |-> [permissions |-> {Star}]],
      [r \in {Role} |-> [permissions |-> {OtherFn}]] }

NoRestrictions == [cannot_trigger_functions |-> FALSE, max_severity_allowed |-> None]

FunctionConfig(roles, restr) == [allowed_roles |-> roles, output_restrictions |-> restr]

FunctionsChoices ==
    { EmptyDict,
      [f \in {Fn} |-> FunctionConfig({Role}, NoRestrictions)],
      [f \in {Fn} |-> FunctionConfig({}, NoRestrictions)],
      [f \in {Fn} |-> FunctionConfig({},
            [cannot_trigger_functions |-> TRUE, max_severity_allowed |-> None])] }

OutputRestrictionsChoices ==
    { EmptyDict,
      [f \in {Fn} |-> [cannot_trigger_functions |-> TRUE, max_severity_allowed |-> None]],
      [f \in {Fn} |-> [cannot_trigger_functions |-> FALSE, max_severity_allowed |-> "low"]],
      [f \in {Fn} |-> [cannot_trigger_functions |-> TRUE, max_severity_allowed |-> "safe"]] }

Chain(allowed, blocked) == [allowed_targets |-> allowed, blocked_targets |-> blocked]

FunctionChainingChoices ==
    { EmptyDict,
      [f \in {Fn} |-> Chain({}, {Star})],
      [f \in {Fn} |-> Chain({}, {Target})],
      [f \in {Fn} |-> Chain({OtherFn}, {})],
      [f \in {Fn} |-> Chain({Target}, {Target})],
      [f \in {Fn} |-> Chain({Star}, {OtherFn})] }

\* a context rule.  condition.keys are the sub-conditions the rule states;
\* condition.severity is the condition string, written as its sequence of
\* tokens (">=low" is << ">", "=", "low" >>); action.reason is Missing, or
\* the string the policy author wrote
ContextRule(fn, keys, sev, block, reason) ==
    [function |-> fn, condition |-> [keys |-> keys, severity |-> sev],
     action |-> [block |-> block, reason |-> reason]]

ContextRulesChoices ==
    { << >>,
      << ContextRule(Fn, {}, << >>, TRUE, Missing) >>,
      << ContextRule(Fn, {}, << >>, TRUE, "") >>,
      << ContextRule(Fn, {"severity"}, << ">", "=", "low" >>, TRUE, "low or worse") >>,
      << ContextRule(Fn, {"severity"}, << "<", "=", "low" >>, TRUE, "low or better") >>,
      << ContextRule(OtherFn, {}, << >>, TRUE, "other function"),
         ContextRule(Fn, {"severity"}, << "<", "medium" >>, FALSE, Missing),
         ContextRule(Fn, {}, << >>, TRUE, "first match wins") >> }

Thresholds(b, a, f) ==
    [block_threshold |-> b, allow_threshold |-> a, use_severity_fallback |-> f]

DefaultThresholds == Thresholds(Pct(70), Pct(30), TRUE)

DecisionThresholdsChoices ==
    { DefaultThresholds,
      Thresholds(Pct(70), Pct(30), FALSE),
      Thresholds(Pct(40), Pct(20), TRUE),
      Thresholds(Pct(90), Pct(60), FALSE) }

DefaultPolicy ==
    [roles |-> DefaultRoles,
     functions |-> EmptyDict,
     severity_rules |-> DefaultSeverityRules,
     output_restrictions |-> EmptyDict,
     function_chaining |-> EmptyDict,
     context_rules |-> << >>,
     decision_thresholds |-> DefaultThresholds]

Sections == DOMAIN DefaultPolicy

\* how many sections the policy's author changed
Customised(p) == Cardinality({s \in Sections : p[s] # DefaultPolicy[s]})

\* Bound: the policies of the model change at most this many sections of
\* the default policy.
MaxCustomSections == 1

Policies ==
    { p \in [roles : RolesChoices,
             functions : FunctionsChoices,
             severity_rules : SeverityRulesChoices,
             output_restrictions : OutputRestrictionsChoices,
             function_chaining : FunctionChainingChoices,
             context_rules : ContextRulesChoices,
             decision_thresholds : DecisionThresholdsChoices] :
        Customised(p) <= MaxCustomSections }

----------------------------------------------------------------------------
(* Config: the policy evaluator                                            *)

\* Python truthiness of an optional string argument
Truthy(x) == x \notin {None, Missing, ""}

\* dict.get(key, default), for a field that is Missing when the key is
Get(x, default) == IF x = Missing THEN default ELSE x

check_role_permission(config, role, function_name) ==
    IF role \notin DOMAIN config.roles THEN FALSE
    ELSE LET permissions == config.roles[role].permissions IN
         IF Star \in permissions THEN TRUE
         ELSE IF function_name \in permissions THEN TRUE
         ELSE IF function_name \in DOMAIN config.functions
                    /\ role \in config.functions[function_name].allowed_roles
              THEN TRUE
         ELSE FALSE

get_severity_rule(config, severity) ==
    IF severity \in DOMAIN config.severity_rules
    THEN config.severity_rules[severity]
    ELSE config.severity_rules["safe"]

check_output_restriction(config, function_name) ==
    IF function_name \in DOMAIN config.output_restrictions
    THEN config.output_restrictions[function_name]
    ELSE IF function_name \in DOMAIN config.functions
         THEN config.functions[function_name].output_restrictions
         ELSE NoRestrictions

\* check_function_chaining with a strict allow-list
check_function_chaining_strict(config, source_func, target_func) ==
    /\ source_func \in DOMAIN config.function_chaining
    /\ config.function_chaining[source_func].blocked_targets \cap {Star, target_func} = {}
    /\ config.function_chaining[source_func].allowed_targets \cap {Star, target_func} # {}

check_function_chaining(config, source_func, target_func) ==
    IF source_func \notin DOMAIN config.function_chaining THEN TRUE
    ELSE LET chain_config == config.function_chaining[source_func] IN
         IF Star \in chain_config.blocked_targets THEN FALSE
         ELSE IF target_func \in chain_config.blocked_targets THEN FALSE
         ELSE IF Star \in chain_config.allowed_targets THEN TRUE
         ELSE IF target_func \in chain_config.allowed_targets THEN TRUE
         ELSE TRUE

\* str.startswith on a tokenised condition string
StartsWith(cond, prefix) ==
    /\ Len(cond) >= Len(prefix)
    /\ \A i \in 1..Len(prefix) : cond[i] = prefix[i]

\* severity_order.get(cond[n:].lower(), 0)
RequiredLevel(cond, n) ==
    IF Len(cond) = n + 1 THEN severity_order(cond[n + 1]) ELSE 0

\* the severity sub-condition of one context rule
SeverityConditionMatches(cond, severity) ==
    LET current == severity_order(severity) IN
    IF StartsWith(cond, << ">", "=" >>) THEN ~(current < RequiredLevel(cond, 2))
    ELSE IF StartsWith(cond, << ">" >>) THEN ~(current <= RequiredLevel(cond, 1))
    ELSE IF StartsWith(cond, << "<", "=" >>) THEN ~(current > RequiredLevel(cond, 2))
    ELSE IF StartsWith(cond, << "<" >>) THEN ~(current >= RequiredLevel(cond, 1))
    ELSE cond = << severity >>

ContextRuleMatches(rule, function_name, severity) ==
    /\ rule.function = function_name
    /\ \/ "severity" \notin rule.condition.keys
       \/ SeverityConditionMatches(rule.condition.severity, severity)

\* the empty dict evaluate_context_rules returns when no rule matches
NoAction == [block |-> FALSE, reason |-> Missing]

evaluate_context_rules(config, function_name, severity) ==
    LET rules == config.context_rules
        hits == {i \in 1..Len(rules) : ContextRuleMatches(rules[i], function_name, severity)}
    IN  IF hits = {} THEN NoAction
        ELSE rules[CHOOSE i \in hits : \A j \in hits : i <= j].action

get_decision_thresholds(config) == config.decision_thresholds

----------------------------------------------------------------------------
(* Values analyze builds                                                   *)

\* an optional number: << >> is None (or a missing key), << n >> is n
Some(n) == << n >>
Nothing == << >>

Resp(decision, blocked_at, reason, safe, score, warning) ==
    [final_decision |-> decision, blocked_at |-> blocked_at, reason |-> reason,
     safe_to_use |-> safe, final_score |-> score, warning |-> warning]

\* no response yet
NoResponse == Resp("PENDING", None, None, FALSE, Nothing, None)

\* a stage result.  score_key: "num" (score holds it), "none" (the key is
\* there and holds None), "missing" (no such key).  severity: Missing when
\* there is no such key, None when the key holds None.  present = FALSE is
\* the Python None.
StageResult(decision, score_key, score, severity) ==
    [present |-> TRUE, decision |-> decision, score_key |-> score_key, score |-> score,
     severity |-> severity, policy_violations |-> FALSE, error |-> FALSE,
     requires_hitl |-> FALSE, skipped |-> FALSE]

NoResult == [StageResult("NONE", "missing", 0, Missing) EXCEPT !.present = FALSE]

----------------------------------------------------------------------------
(* Keyword detector: GuardPipeline._detect_keywords                        *)

Categories == {"security", "business", "action_triggering", "financial", "pii", "other"}

\* Bound: how many keywords of one category a function result holds.
MaxKeywordsPerCategory == 1

\* the keywords found in a function result, counted by category ("other":
\* custom keywords that match no category pattern)
KeywordFindings == [Categories -> 0..MaxKeywordsPerCategory]

NoFindings == [c \in Categories |-> 0]

RECURSIVE SumOver(_, _)
SumOver(f, S) ==
    IF S = {} THEN 0
    ELSE LET x == CHOOSE y \in S : TRUE IN f[x] + SumOver(f, S \ {x})

category_multiplier(found) ==
    LET m1 == IF found["security"] > 0 THEN 120 ELSE 100
        m2 == IF found["action_triggering"] > 0 THEN Max(m1, 130) ELSE m1
        m3 == IF found["financial"] > 0 THEN Max(m2, 120) ELSE m2
    IN  IF found["pii"] > 0 THEN Max(m3, 130) ELSE m3

KeywordSeverity(risk_score) ==
    IF risk_score >= Pct(70) THEN "high"
    ELSE IF risk_score >= Pct(40) THEN "medium"
    ELSE IF risk_score >= Pct(20) THEN "low"
    ELSE "safe"

_detect_keywords(found) ==
    LET keyword_count == SumOver(found, Categories)
        base_score == Min(keyword_count * Pct(10), Pct(70))
        risk_score == Min(Weighted(base_score, category_multiplier(found)), Pct(95))
    IN  [present |-> TRUE,
         detected |-> keyword_count > 0,
         keyword_count |-> keyword_count,
         risk_score |-> risk_score,
         severity |-> KeywordSeverity(risk_score)]

\* keyword_detection_result = None
NoKeywords ==
    [present |-> FALSE, detected |-> FALSE, keyword_count |-> 0, risk_score |-> 0,
     severity |-> "safe"]

----------------------------------------------------------------------------
(* Input analysis: Analyzer.analyze_function_call, _analyze_input          *)

\* what the classifier can answer for one text: benign, or malicious
ClassifierScores == {Pct(2), Pct(98)}

\* __init__ defaults of GuardPipeline
input_block_threshold == Pct(50)
quarantine_safe_threshold == Pct(10)
quarantine_block_threshold == Pct(50)

_determine_severity(score) ==
    IF score < Pct(10) THEN "safe"
    ELSE IF score < Pct(30) THEN "low"
    ELSE IF score < Pct(50) THEN "medium"
    ELSE IF score < Pct(70) THEN "high"
    ELSE IF score < Pct(90) THEN "high"
    ELSE "critical"

\* args_score is Nothing when function_args is None
combined_score(name_score, args_score, result_score) ==
    IF args_score # Nothing
    THEN Weighted(name_score, 20) + Weighted(args_score[1], 30) + Weighted(result_score, 50)
    ELSE Weighted(name_score, 30) + Weighted(result_score, 70)

_analyze_input(name_score, args_score, result_score) ==
    LET score == combined_score(name_score, args_score, result_score) IN
    StageResult(IF score >= input_block_threshold THEN "BLOCK" ELSE "PASS",
                "num", score, _determine_severity(score))

\* the default pass result analyze builds when input analysis is disabled
InputSkipped == [StageResult("PASS", "num", 0, "safe") EXCEPT !.skipped = TRUE]

----------------------------------------------------------------------------
(* The pipeline and its requests                                           *)

\* GuardPipeline.__init__: without an API key there is no client and
\* quarantine is switched off.  config_loaded says whether self.config is
\* set.  enable_llm_agent is not kept: analyze switches it on, before it
\* reads it, whenever there is a client, and without a client the analyst
\* is unavailable whatever the flag says.
Pipelines ==
    { [openai_client |-> c, enable_quarantine |-> q, config_loaded |-> FALSE] :
        c \in BOOLEAN, q \in BOOLEAN } \
    { [openai_client |-> FALSE, enable_quarantine |-> TRUE, config_loaded |-> FALSE] }

\* the request a client sends when it sets no option (AnalyzeRequest)
DefaultRequest ==
    [user_role |-> None, target_function |-> None, function_args |-> FALSE,
     function_result |-> "text", input_analysis |-> TRUE, llm_analysis |-> FALSE,
     quarantine_analysis |-> FALSE, quick_analysis |-> FALSE,
     enable_keyword_detection |-> FALSE]

\* how many options the client set
OptionsSet(r) == Cardinality({k \in DOMAIN DefaultRequest : r[k] # DefaultRequest[k]})

\* Bound: the requests of the model set at most this many options.
MaxRequestOptions == 2

\* the arguments of analyze.  function_name is Fn; function_result is
\* either free text or a small status dict ("status"); function_args says
\* whether arguments were passed.
Requests ==
    { r \in [user_role : {None, Role},
             target_function : {None, Target},
             function_args : BOOLEAN,
             function_result : {"text", "status"},
             input_analysis : BOOLEAN,
             llm_analysis : BOOLEAN,
             quarantine_analysis : BOOLEAN,
             quick_analysis : BOOLEAN,
             enable_keyword_detection : BOOLEAN] :
        OptionsSet(r) <= MaxRequestOptions }

NoRequest ==
    [user_role |-> None, target_function |-> None, function_args |-> FALSE,
     function_result |-> "text", input_analysis |-> FALSE, llm_analysis |-> FALSE,
     quarantine_analysis |-> FALSE, quick_analysis |-> FALSE,
     enable_keyword_detection |-> FALSE]

-----------------------------------------------------------------------------
(* The global pipeline and the route handlers around it                    *)

\* dict.update(new) on a dict `old`
Updated(old, new) ==
    [k \in DOMAIN old \cup DOMAIN new |->
        IF k \in DOMAIN new THEN new[k] ELSE old[k]]

NoEntries == [k \in {} |-> None]

\* one configuration dict: roles (name to permission), functions (name to
\* a dict of settings) and the list of context rules.  The other dict
\* sections of a configuration are merged exactly as roles are.
ConfigDict(roles, functions, context_rules) ==
    [roles |-> roles, functions |-> functions, context_rules |-> context_rules]

\* PolicyRepository.build_default_config, cut down to two roles and one
\* function
build_default_config ==
    ConfigDict([k \in {"admin", "user"} |-> IF k = "admin" THEN "all" ELSE "read"],
               [k \in {Target} |-> [f \in {"allowed_roles"} |-> "admin"]],
               << >>)

\* what hipocap_config.json may hold when the server starts with one
FileConfigs ==
    { ConfigDict([k \in {"admin"} |-> "all"],
                 [k \in {Target} |-> [f \in {"allowed_roles"} |-> "admin"]],
                 << >>),
      ConfigDict([k \in {"admin", "user"} |-> "all"],
                 NoEntries,
                 << "file rule" >>) }

\* GuardPipeline.__init__ as far as the handlers care: config is the file's
\* configuration or None, custom_prompts is None
SharedAtBoot(config) == [config |-> config, custom_prompts |-> Nothing]

BootChoices ==
    {SharedAtBoot(Nothing)} \cup {SharedAtBoot(Some(c)) : c \in FileConfigs}

\* no handler is running
HandlerIdle ==
    [at |-> "idle", config_was_none |-> FALSE, original_config |-> Nothing,
     original_custom_prompts |-> Nothing]

\* an empty governance_policies table; ids are handed out from `seq`
EmptyTable == [rows |-> {}, seq |-> 1]

\* the requests that can be talking to the database at one time
Sessions == {1, 2}

\* the fields of a PolicyUpdate body, all left out
NoPatch ==
    [roles |-> Nothing, context_rules |-> Nothing, is_active |-> Nothing,
     is_default |-> Nothing]

\* a database session with no request behind it.  `updated` and `added`
\* are what the session wrote and has not committed; a session that has
\* answered keeps, for the record, whether it made a policy the default
\* (is_default), the rows it cleared (cleared), whether
\* PolicyRepository.create raised (failed) and, for an update, the row as
\* it was loaded and the body (loaded, patch).
IdleSession ==
    [at |-> "idle", op |-> None, user |-> None, policy_key |-> None,
     is_default |-> FALSE, loaded |-> Nothing, patch |-> NoPatch,
     updated |-> {}, added |-> Nothing, status |-> 0, used |-> Nothing,
     cleared |-> {}, failed |-> FALSE]

\* no request holds a database session
NoSessions == [i \in Sessions |-> IdleSession]

\* no handler is running on the pipeline, built without a configuration
RoutesAtRest ==
    /\ shared = SharedAtBoot(Nothing)
    /\ handler = HandlerIdle
    /\ before = SharedAtBoot(Nothing)

\* an empty table and no request at the database
StoreAtRest ==
    /\ db = EmptyTable
    /\ session = NoSessions

\* no Config method is being called
NoCall == [op |-> "none"]

EvalAtRest == call = NoCall

\* an empty analysis_traces table; ids are handed out from `seq`
NoTraces == [rows |-> {}, seq |-> 1]

\* no request is at the trace store
JobIdle == [at |-> "idle"]

TracesAtRest ==
    /\ traces = NoTraces
    /\ job = JobIdle

\* the route handlers, the policy store, the evaluator and the trace store
\* at rest
OutsideAtRest ==
    /\ RoutesAtRest
    /\ StoreAtRest
    /\ EvalAtRest
    /\ TracesAtRest

-----------------------------------------------------------------------------
(* GuardPipeline.analyze                                                   *)

\* a pipeline built with an API key
ServerPipeline ==
    [openai_client |-> TRUE, enable_quarantine |-> TRUE, config_loaded |-> FALSE]

\* no request inside analyze
AnalyzeAtRest ==
    /\ policy = DefaultPolicy
    /\ req = NoRequest
    /\ pc = "idle"
    /\ input_result = NoResult
    /\ llm_analysis_result = NoResult
    /\ quarantine_result = NoResult
    /\ ran = << >>
    /\ calls = << >>
    /\ response = NoResponse

Init ==
    /\ pipe \in Pipelines
    /\ AnalyzeAtRest
    /\ OutsideAtRest

\* analyze returns `resp`
Return(resp) ==
    /\ response' = resp
    /\ pc' = "done"

\* routes.analyze up to the call of pipeline.analyze: the policy found for
\* the request is loaded into the pipeline; when none is found the pipeline
\* keeps the configuration it was built with, which may be none at all, and
\* analyze is called without function_args and quick_analysis.
Receive ==
    /\ pc = "idle"
    /\ \E r \in Requests, p \in Policies, loaded \in BOOLEAN :
          /\ (~loaded) => /\ p = DefaultPolicy
                           /\ ~r.function_args
                           /\ ~r.quick_analysis
          /\ req' = r
          /\ policy' = p
          /\ pipe' = [pipe EXCEPT !.config_loaded = loaded]
    /\ pc' = "rbac"
    /\ input_result' = NoResult
    /\ llm_analysis_result' = NoResult
    /\ quarantine_result' = NoResult
    /\ ran' = << >>
    /\ calls' = << >>
    /\ response' = NoResponse
    /\ UNCHANGED outside

\* RbacGate without the permission check
RbacGateOff ==
    /\ pc = "rbac"
    /\ pc' = "chaining"
    /\ UNCHANGED <<outside, pipe, policy, req, input_result, llm_analysis_result,
                   quarantine_result, ran, calls, response>>

\* analyze, "RBAC Check"
RbacGate ==
    /\ pc = "rbac"
    /\ IF pipe.config_loaded /\ Truthy(req.user_role)
       THEN /\ ran' = Append(ran, "rbac")
            /\ IF ~check_role_permission(policy, req.user_role, Fn)
               THEN Return(Resp("BLOCKED", "rbac", "Role does not have permission to call",
                                FALSE, Nothing, None))
               ELSE pc' = "chaining" /\ UNCHANGED response
       ELSE pc' = "chaining" /\ UNCHANGED <<ran, response>>
    /\ UNCHANGED <<outside, pipe, policy, req, input_result, llm_analysis_result,
                   quarantine_result, calls>>

\* analyze, "Function Chaining Check"
ChainingGate ==
    /\ pc = "chaining"
    /\ IF pipe.config_loaded /\ Truthy(req.target_function)
       THEN /\ ran' = Append(ran, "function_chaining")
            /\ IF ~check_function_chaining(policy, Fn, req.target_function)
               THEN Return(Resp("BLOCKED", "function_chaining",
                                "Function is not allowed to call", FALSE, Nothing, None))
               ELSE pc' = "input" /\ UNCHANGED response
       ELSE pc' = "input" /\ UNCHANGED <<ran, response>>
    /\ UNCHANGED <<outside, pipe, policy, req, input_result, llm_analysis_result,
                   quarantine_result, calls>>

\* Blocked with safe_to_use left on
BlockedButSafe(at, reason) == Resp("BLOCKED", at, reason, TRUE, Nothing, None)

Blocked(at, reason) == Resp("BLOCKED", at, reason, FALSE, Nothing, None)

\* InputGates with every gate open
InputGatesOpen(config_loaded, config, r, input, keyword) == NoResponse

\* analyze, from "Apply severity rules after input analysis" to the keyword
\* check: the response of the first gate that blocks, NoResponse when the
\* request passes them all
InputGates(config_loaded, config, r, input, keyword) ==
    LET severity_rule == get_severity_rule(config, input.severity)
        output_restrictions == check_output_restriction(config, Fn)
        max_severity_allowed == output_restrictions.max_severity_allowed
        context_action == evaluate_context_rules(config, Fn, input.severity)
        input_blocks == r.input_analysis /\ input.decision = "BLOCK"
        keyword_blocks ==
            /\ r.enable_keyword_detection /\ keyword.present /\ keyword.detected
            /\ (keyword.severity \in {"high", "critical"} \/ keyword.risk_score >= Pct(70))
        after_policy ==
            IF input_blocks
            THEN Blocked("input_analysis", "Input analysis detected risk")
            ELSE IF keyword_blocks
            THEN Blocked("keyword_detection", "Keyword detection identified sensitive keywords")
            ELSE NoResponse
    IN  IF config_loaded /\ r.input_analysis
        THEN IF severity_rule.block
             THEN Blocked("severity_rule_input", "Severity rule requires blocking")
             ELSE IF /\ Truthy(max_severity_allowed)
                     /\ severity_order(input.severity) > severity_order(max_severity_allowed)
             THEN Blocked("output_restriction", "Function output severity exceeds allowed maximum")
             ELSE IF context_action.block
             THEN Blocked("context_rule",
                          IF context_action.reason = Missing
                          THEN "Context rule triggered" ELSE context_action.reason)
             ELSE after_policy
        ELSE after_policy

\* analyze, from "Keyword Detection (if enabled)" to the keyword check: the
\* keyword detector runs first, then the classifier scores the function
\* name, its arguments and its result, then the gates decide
InputStage ==
    /\ pc = "input"
    /\ \E found \in (IF req.enable_keyword_detection THEN KeywordFindings ELSE {NoFindings}),
          name_score \in (IF req.input_analysis THEN ClassifierScores ELSE {0}),
          args_score \in (IF req.function_args /\ req.input_analysis
                          THEN ClassifierScores ELSE {0}),
          result_score \in (IF req.input_analysis THEN ClassifierScores ELSE {0}) :
          LET keyword == IF req.enable_keyword_detection
                         THEN _detect_keywords(found) ELSE NoKeywords
              input == IF req.input_analysis
                       THEN _analyze_input(name_score,
                                IF req.function_args THEN Some(args_score) ELSE Nothing,
                                result_score)
                       ELSE InputSkipped
              gate == InputGates(pipe.config_loaded, policy, req, input, keyword)
          IN  /\ input_result' = input
              /\ ran' = ran \o (IF req.enable_keyword_detection
                                THEN << "keyword_detection" >> ELSE << >>)
                            \o (IF req.input_analysis
                                THEN << "input_analysis" >> ELSE << >>)
              /\ IF gate.final_decision = "BLOCKED"
                 THEN Return(gate)
                 ELSE pc' = "llm" /\ UNCHANGED response
    /\ UNCHANGED <<outside, pipe, policy, req, llm_analysis_result, quarantine_result, calls>>

----------------------------------------------------------------------------
(* The LLM analyst: analyze "LLM Analysis Agent", _analyze_with_llm_agent  *)

\* what the analyst's JSON answer says, as far as analyze reads it before
\* the quarantine stage
AnalystAnswers ==
    [decision : {"ALLOW", "BLOCK"},
     score : {Pct(10), Pct(90)},
     severity : {"safe", "high"},
     policy_violations : BOOLEAN]

\* "Extract results": quick mode keeps decision, score and reason only
AnalystResult(answer, quick_mode) ==
    [StageResult(answer.decision, "num", answer.score,
                 IF quick_mode THEN Missing ELSE answer.severity)
        EXCEPT !.policy_violations = (~quick_mode) /\ answer.policy_violations]

\* a timeout answered like a failure
AnalystTimedOutAsFailure == [StageResult("ERROR", "num", Pct(100), Missing) EXCEPT !.error = TRUE]

\* a timeout, at whichever call
AnalystTimedOut == [StageResult("ERROR", "num", 0, Missing) EXCEPT !.error = TRUE]

\* every call failed, none by timeout
AnalystFailed == [StageResult("ERROR", "num", Pct(100), Missing) EXCEPT !.error = TRUE]

\* the unformatted call answered: the answer's text is kept as summary, the
\* verdict is fixed
AnalystFallback(quick_mode) ==
    [StageResult("ALLOW", "num", 0, IF quick_mode THEN Missing ELSE "safe")
        EXCEPT !.error = TRUE]

\* "LLM analysis requested but LLM agent is not available"
AnalystUnavailable == [StageResult("ERROR", "missing", 0, Missing) EXCEPT !.error = TRUE]

Call(stage, format, outcome) == << stage, format, outcome >>

\* the analyst returns `result` to analyze
AnalystReturns(result) ==
    /\ llm_analysis_result' = result
    /\ pc' = "llm_gate"

\* analyze, "LLM Analysis Agent" up to the call of _analyze_with_llm_agent;
\* when llm_analysis is off, on to "Quarantine Analysis" (past the check
\* "input analysis says BLOCK and no other analysis is enabled")
LlmStart ==
    /\ pc = "llm"
    /\ IF req.llm_analysis
       THEN /\ IF pipe.openai_client
               THEN /\ pc' = "analyst_schema"
                    /\ ran' = Append(ran, "llm_analysis")
                    /\ UNCHANGED <<llm_analysis_result, response>>
               ELSE /\ AnalystReturns(AnalystUnavailable)
                    /\ UNCHANGED <<ran, response>>
       ELSE /\ IF /\ req.input_analysis /\ input_result.decision = "BLOCK"
                  /\ ~req.quarantine_analysis
                  /\ pipe.config_loaded
                  /\ get_severity_rule(policy, input_result.severity).block
               THEN Return(Blocked("input_analysis", "Input analysis detected risk"))
               ELSE pc' = "quarantine" /\ UNCHANGED response
            /\ UNCHANGED <<ran, llm_analysis_result>>
    /\ UNCHANGED <<outside, pipe, policy, req, input_result, quarantine_result, calls>>

\* _analyze_with_llm_agent, the json_schema call.  It answers, or times out
\* (no further call), or fails in a way the inner handler catches (on to the
\* json_object call), or fails otherwise (on to the unformatted call).
AnalystSchemaCall ==
    /\ pc = "analyst_schema"
    /\ \/ \E answer \in AnalystAnswers :
            /\ calls' = Append(calls, Call("analyst", "json_schema", "ok"))
            /\ AnalystReturns(AnalystResult(answer, req.quick_analysis))
       \/ /\ calls' = Append(calls, Call("analyst", "json_schema", "timeout"))
          /\ AnalystReturns(AnalystTimedOut)
       \/ /\ calls' = Append(calls, Call("analyst", "json_schema", "rejected"))
          /\ pc' = "analyst_json"
          /\ UNCHANGED llm_analysis_result
       \/ /\ calls' = Append(calls, Call("analyst", "json_schema", "raised"))
          /\ pc' = "analyst_plain"
          /\ UNCHANGED llm_analysis_result
    /\ UNCHANGED <<outside, pipe, policy, req, input_result, quarantine_result, ran, response>>

\* _analyze_with_llm_agent, the json_object call
AnalystJsonCall ==
    /\ pc = "analyst_json"
    /\ \/ \E answer \in AnalystAnswers :
            /\ calls' = Append(calls, Call("analyst", "json_object", "ok"))
            /\ AnalystReturns(AnalystResult(answer, req.quick_analysis))
       \/ /\ calls' = Append(calls, Call("analyst", "json_object", "timeout"))
          /\ AnalystReturns(AnalystTimedOut)
       \/ /\ calls' = Append(calls, Call("analyst", "json_object", "raised"))
          /\ pc' = "analyst_plain"
          /\ UNCHANGED llm_analysis_result
    /\ UNCHANGED <<outside, pipe, policy, req, input_result, quarantine_result, ran, response>>

\* _analyze_with_llm_agent, the unformatted call
AnalystPlainCall ==
    /\ pc = "analyst_plain"
    /\ \/ /\ calls' = Append(calls, Call("analyst", "unformatted", "ok"))
          /\ AnalystReturns(AnalystFallback(req.quick_analysis))
       \/ /\ calls' = Append(calls, Call("analyst", "unformatted", "timeout"))
          /\ AnalystReturns(AnalystTimedOut)
       \/ /\ calls' = Append(calls, Call("analyst", "unformatted", "raised"))
          /\ AnalystReturns(AnalystFailed)
    /\ UNCHANGED <<outside, pipe, policy, req, input_result, quarantine_result, ran, response>>

\* analyze, "If only LLM analysis is enabled (no quarantine)", once the
\* analyst's error flag is seen clear.  The answer's threats_found and
\* reason are read here and nowhere else before the response.
LlmOnlyVerdict(config_loaded, config, result, threats_found, reason_text) ==
    LET severity == Get(result.severity, "safe")
        score == IF result.score_key = "num" THEN Some(result.score) ELSE Some(0)
        severity_rule_blocks == config_loaded /\ get_severity_rule(config, severity).block
    IN  IF result.policy_violations
        THEN Resp("BLOCKED", "llm_analysis", "LLM analysis detected policy violations",
                  FALSE, score, None)
        ELSE IF result.decision = "BLOCK"
        THEN Resp("BLOCKED", "llm_analysis",
                  IF reason_text # "" THEN reason_text ELSE "LLM analysis detected risk",
                  FALSE, score, None)
        ELSE IF threats_found
        THEN IF severity_rule_blocks
             THEN Resp("BLOCKED", "llm_analysis", "LLM analysis detected risk with threats",
                       FALSE, score, None)
             ELSE Resp("ALLOWED", None,
                       "LLM analysis detected risk but severity rules allow it",
                       TRUE, score, None)
        ELSE Resp("ALLOWED", None,
                  IF reason_text # "" THEN reason_text ELSE "LLM analysis: Safe",
                  TRUE, score, None)

\* analyze, from "Check for policy violations first (always block)" to
\* "Quarantine Analysis": the analyst's gates, then the answer of a request
\* that asked for the analyst alone
LlmGate ==
    /\ pc = "llm_gate"
    /\ LET result == llm_analysis_result IN
       IF result.policy_violations
       THEN Return(Blocked("llm_analysis", "LLM analysis detected policy violations"))
       ELSE IF /\ result.decision = "BLOCK"
               /\ pipe.config_loaded /\ Truthy(result.severity)
               /\ get_severity_rule(policy, result.severity).block
       THEN Return(Blocked("severity_rule_llm_analysis",
                           "Severity rule requires blocking (from LLM analysis)"))
       ELSE IF ~req.quarantine_analysis
       THEN IF result.error
            THEN Return(Resp("ALLOWED", None, "LLM analysis failed or is not available",
                             TRUE, Nothing,
                             "LLM analysis failed, proceeding with input analysis only"))
            ELSE \E threats_found \in (IF req.quick_analysis THEN {FALSE} ELSE BOOLEAN),
                    reason_text \in {"", "the analyst's reason"} :
                    Return(LlmOnlyVerdict(pipe.config_loaded, policy, result,
                                          threats_found, reason_text))
       ELSE pc' = "quarantine" /\ UNCHANGED response
    /\ UNCHANGED <<outside, pipe, policy, req, input_result, llm_analysis_result,
                   quarantine_result, ran, calls>>

----------------------------------------------------------------------------
(* Quarantine: _analyze_quarantine                                         *)

\* what the evaluator's JSON answer says: its severity assessment, its
\* confidence (in hundredths), how many threat indicators, function call
\* attempts and attack patterns it lists, and whether it asks for a human
QuarantineAnswers ==
    [severity_assessment : {"safe", "medium", "high"},
     confidence : {50, 100},
     threat_indicators : {0},
     function_call_attempts : {0},
     detected_patterns : {0},
     requires_hitl : BOOLEAN]

severity_to_score(s) ==
    CASE s = "safe" -> 0
      [] s = "low" -> Pct(20)
      [] s = "medium" -> Pct(50)
      [] s = "high" -> Pct(80)
      [] s = "critical" -> Pct(95)
      [] OTHER -> 0

has_threats(a) ==
    \/ a.threat_indicators > 0
    \/ a.detected_patterns > 0
    \/ a.function_call_attempts > 0
    \/ a.severity_assessment \notin {"safe", "low"}

threat_multiplier(a) ==
    LET m1 == IF a.threat_indicators > 3 THEN 110 ELSE 100
        m2 == IF a.function_call_attempts > 0 THEN Max(m1, 115) ELSE m1
    IN  IF a.detected_patterns > 2 THEN Max(m2, 105) ELSE m2

llm_assessment_score(a) ==
    LET base == severity_to_score(a.severity_assessment)
        blended == Weighted(base, a.confidence) + Weighted(base \div 2, 100 - a.confidence)
    IN  Min(Weighted(blended, threat_multiplier(a)), Pct(99))

\* full mode, summary and content_analysis both in the answer
QuarantineCombinedScore(a, llm_output_score, summary_score, content_analysis_score) ==
    LET assessment == llm_assessment_score(a) IN
    IF has_threats(a)
    THEN IF summary_score >= Pct(90) \/ content_analysis_score >= Pct(90)
         THEN Weighted(assessment, 50)
              + Weighted(Max(summary_score, content_analysis_score), 30)
              + Weighted(llm_output_score, 20)
         ELSE Weighted(assessment, 60) + Weighted(summary_score, 15)
              + Weighted(content_analysis_score, 15) + Weighted(llm_output_score, 10)
    ELSE Weighted(assessment, 90) + Weighted(llm_output_score, 10)

Worse(s, t) == IF severity_order(s) > severity_order(t) THEN s ELSE t

QuarantineSeverity(a, combined) ==
    LET llm_severity == a.severity_assessment
        assessment == llm_assessment_score(a)
    IN  IF ~has_threats(a) /\ llm_severity \in {"safe", "low"}
        THEN IF assessment >= quarantine_block_threshold
             THEN (IF assessment < Pct(70) THEN "medium" ELSE "high")
             ELSE llm_severity
        ELSE IF combined >= quarantine_block_threshold
        THEN Worse(llm_severity, IF combined >= Pct(90) THEN "critical" ELSE "high")
        ELSE IF combined >= quarantine_safe_threshold
        THEN Worse(llm_severity, IF combined < Pct(50) THEN "medium" ELSE "high")
        ELSE IF severity_order(llm_severity) >= 2
        THEN llm_severity
        ELSE IF combined < Pct(10) THEN "safe" ELSE "low"

QuarantineDecision(a, severity, combined, summary_score, content_analysis_score) ==
    LET high_text_threat ==
            /\ has_threats(a)
            /\ (summary_score >= Pct(90) \/ content_analysis_score >= Pct(90))
    IN  IF severity_order(severity) >= 3 THEN "BLOCK"
        ELSE IF high_text_threat THEN "BLOCK"
        ELSE IF combined >= quarantine_block_threshold THEN "BLOCK"
        ELSE "PASS"

\* the result _analyze_quarantine builds from a parsed answer and the
\* classifier's scores of the answer's texts
QuarantineResult(a, llm_output_score, summary_score, content_analysis_score) ==
    LET combined == QuarantineCombinedScore(a, llm_output_score, summary_score,
                                            content_analysis_score)
        severity == QuarantineSeverity(a, combined)
    IN  [StageResult(QuarantineDecision(a, severity, combined, summary_score,
                                        content_analysis_score),
                     "num", combined, severity)
            EXCEPT !.requires_hitl = a.requires_hitl]

\* the answer built when no JSON could be found in the evaluator's text
MinimalAnswer(raw_score) ==
    [severity_assessment |-> IF raw_score < Pct(30) THEN "safe" ELSE "medium",
     confidence |-> 50, threat_indicators |-> 0, function_call_attempts |-> 0,
     detected_patterns |-> 0, requires_hitl |-> FALSE]

\* the outer handler of _analyze_quarantine
QuarantineError == [StageResult("ERROR", "num", 0, "safe") EXCEPT !.error = TRUE]

\* "Simple structured data - unlikely to contain hidden instructions"
QuarantineSkippedStatus == StageResult("SKIPPED", "num", 0, "safe")

\* analyze's own result when quarantine is not asked for or switched off
QuarantineSkipped == StageResult("SKIPPED", "none", 0, None)

\* _analyze_quarantine returns `result` to analyze
QuarantineReturns(result) ==
    /\ quarantine_result' = result
    /\ pc' = "decide"

\* the evaluator's answer was parsed: the classifier scores the answer and
\* (when the answer reports threats) its summary and content_analysis
QuarantineScored(a) ==
    \E llm_output_score \in ClassifierScores,
       summary_score \in (IF has_threats(a) THEN ClassifierScores ELSE {0}),
       content_analysis_score \in (IF has_threats(a) THEN ClassifierScores ELSE {0}) :
       QuarantineReturns(QuarantineResult(a, llm_output_score, summary_score,
                                          content_analysis_score))

\* analyze, "Quarantine Analysis", and _analyze_quarantine up to Stage 1
QuarantineStart ==
    /\ pc = "quarantine"
    /\ IF req.quarantine_analysis /\ pipe.enable_quarantine
       THEN /\ ran' = Append(ran, "quarantine_analysis")
            /\ IF ~pipe.enable_quarantine \/ ~pipe.openai_client
               THEN QuarantineReturns(
                        [StageResult("SKIPPED", "missing", 0, Missing) EXCEPT !.error = TRUE])
               ELSE IF req.function_result = "status"
               THEN QuarantineReturns(QuarantineSkippedStatus)
               ELSE pc' = "q_stage1" /\ UNCHANGED quarantine_result
       ELSE /\ QuarantineReturns(QuarantineSkipped)
            /\ UNCHANGED ran
    /\ UNCHANGED <<outside, pipe, policy, req, input_result, llm_analysis_result, calls, response>>

\* _analyze_quarantine, Stage 1 (infection simulation): whatever the call
\* does, Stage 2 follows (on the raw function result when the call failed)
QuarantineStage1Call ==
    /\ pc = "q_stage1"
    /\ \E outcome \in {"ok", "raised"} :
          calls' = Append(calls, Call("quarantine_stage1", "unformatted", outcome))
    /\ pc' = "q_schema"
    /\ UNCHANGED <<outside, pipe, policy, req, input_result, llm_analysis_result,
                   quarantine_result, ran, response>>

\* _analyze_quarantine, Stage 2, the json_schema call.  It answers, or fails
\* in a way the handler catches, a timeout included (on to the json_object
\* call), or fails otherwise (the outer handler answers ERROR).
QuarantineSchemaCall ==
    /\ pc = "q_schema"
    /\ \/ /\ calls' = Append(calls, Call("quarantine_stage2", "json_schema", "ok"))
          /\ \E a \in QuarantineAnswers : QuarantineScored(a)
       \/ /\ \E outcome \in {"timeout", "rejected"} :
                calls' = Append(calls, Call("quarantine_stage2", "json_schema", outcome))
          /\ pc' = "q_json"
          /\ UNCHANGED quarantine_result
       \/ /\ calls' = Append(calls, Call("quarantine_stage2", "json_schema", "raised"))
          /\ QuarantineReturns(QuarantineError)
    /\ UNCHANGED <<outside, pipe, policy, req, input_result, llm_analysis_result, ran, response>>

\* _analyze_quarantine, Stage 2, the json_object call and the last resort
\* after it: when the call fails, an answer is dug out of whatever text is
\* at hand, or made up from the classifier's score of that text, or the
\* first failure is raised again (the outer handler answers ERROR)
QuarantineJsonCall ==
    /\ pc = "q_json"
    /\ \/ /\ calls' = Append(calls, Call("quarantine_stage2", "json_object", "ok"))
          /\ \E a \in QuarantineAnswers : QuarantineScored(a)
       \/ /\ calls' = Append(calls, Call("quarantine_stage2", "json_object", "raised"))
          /\ \/ \E a \in QuarantineAnswers : QuarantineScored(a)
             \/ \E raw_score \in ClassifierScores, summary_score \in ClassifierScores :
                   QuarantineReturns(QuarantineResult(MinimalAnswer(raw_score),
                                                      raw_score, summary_score, raw_score))
             \/ QuarantineReturns(QuarantineError)
    /\ UNCHANGED <<outside, pipe, policy, req, input_result, llm_analysis_result, ran, response>>

----------------------------------------------------------------------------
(* analyze, from "Handle skipped quarantine" to the end                    *)

\* the analyst's score as fusion reads it: the answer's score, or, for a
\* result without one, a score made from its severity (such a result names
\* no threats and no violations)
FusionLlmScore(llm) ==
    IF llm.score_key = "num" THEN llm.score
    ELSE Min(severity_order(Get(llm.severity, "safe")) * Pct(20), Pct(100))

\* "Final decision logic using thresholds and severity rules": the
\* verdict << final_decision, blocked_at, reason, final_score >> before the
\* output restriction is looked at
FusionVerdict(config_loaded, config, input, llm, quarantine) ==
    LET thresholds == IF config_loaded THEN get_decision_thresholds(config)
                      ELSE DefaultThresholds
        first_score == IF llm.present /\ llm.score_key # "missing" THEN llm.score
                       ELSE IF quarantine.score_key # "missing" THEN quarantine.score
                       ELSE input.score
        llm_score == IF llm.present THEN FusionLlmScore(llm) ELSE 0
        q_score == IF quarantine.score_key # "missing" THEN quarantine.score ELSE 0
        combined == Max(llm_score, q_score)
        final_score == Max(first_score, combined)
        max_severity == Worse(Get(quarantine.severity, "safe"),
                              IF llm.present THEN Get(llm.severity, "safe") ELSE "safe")
    IN  IF llm.present /\ llm.policy_violations
        THEN << "BLOCKED", "llm_analysis", "Policy violations detected", first_score >>
        ELSE IF llm.present /\ llm.decision = "BLOCK"
        THEN << "BLOCKED", "llm_analysis", "LLM analysis detected risk", first_score >>
        ELSE IF combined >= thresholds.block_threshold
        THEN << "BLOCKED", IF llm.present THEN "llm_analysis" ELSE "quarantine_analysis",
                "Combined score exceeds block threshold", final_score >>
        ELSE IF combined < thresholds.allow_threshold
        THEN << "ALLOWED", None, "Combined score below allow threshold", final_score >>
        ELSE IF thresholds.use_severity_fallback
        THEN IF config_loaded /\ get_severity_rule(config, max_severity).block
             THEN << "BLOCKED", "severity_rule", "Severity rule requires blocking",
                     final_score >>
             ELSE << "ALLOWED", None, "Score between thresholds, severity allows it",
                     final_score >>
        ELSE IF combined >= (thresholds.block_threshold + thresholds.allow_threshold) \div 2
        THEN << "BLOCKED", "threshold", "Score between thresholds, no severity fallback",
                final_score >>
        ELSE << "ALLOWED", None, "Score between thresholds, no severity fallback",
                final_score >>

\* "Check output restrictions for final decision" and the final response
FinalResponse(config_loaded, config, r, verdict) ==
    IF /\ config_loaded
       /\ check_output_restriction(config, Fn).cannot_trigger_functions
       /\ Truthy(r.target_function)
    THEN Resp("BLOCKED", "output_restriction", "Function output cannot trigger other functions",
              FALSE, Some(verdict[4]), None)
    ELSE Resp(verdict[1], verdict[2], verdict[3], verdict[1] = "ALLOWED",
              Some(verdict[4]), None)

\* fusion reads quarantine_result.get('severity', 'safe').lower(): the
\* result analyze builds for a quarantine that did not run holds None there
FusionRaises(quarantine) == quarantine.severity = None

\* analyze, from "Handle skipped quarantine" to "Make final decision based
\* on all phases": the response of the first check that answers, NoResponse
\* when the request goes on to fusion
QuarantineGates(config_loaded, config, r, llm, quarantine) ==
    LET severity_rule == get_severity_rule(config, quarantine.severity) IN
    IF /\ quarantine.decision = "SKIPPED"
       /\ (~r.llm_analysis \/ (llm.present /\ ~llm.error))
    THEN Resp("ALLOWED", None, "Quarantine analysis skipped or disabled", TRUE, Nothing, None)
    ELSE IF config_loaded /\ Truthy(quarantine.severity) /\ severity_rule.block
    THEN Blocked("severity_rule_quarantine", "Severity rule requires blocking")
    ELSE IF config_loaded /\ Truthy(quarantine.severity) /\ ~severity_rule.allow_output_use
    THEN Blocked("severity_rule_quarantine", "Severity does not allow output use")
    ELSE IF quarantine.decision = "ERROR"
    THEN Resp("ALLOWED_WITH_WARNING", None,
              "Input analysis passed, quarantine analysis error occurred",
              TRUE, Nothing, "Quarantine analysis failed")
    ELSE IF llm.present /\ llm.decision = "BLOCK"
    THEN Resp("BLOCKED", "llm_analysis", "LLM analysis agent detected risk", FALSE,
              Some(IF llm.score_key = "num" THEN llm.score ELSE 0), None)
    ELSE IF quarantine.decision = "BLOCK"
    THEN Resp("BLOCKED", "quarantine_analysis",
              "Quarantine analysis detected risk in LLM output", FALSE,
              Some(IF quarantine.score_key = "num" THEN quarantine.score ELSE 0), None)
    ELSE NoResponse

\* analyze, from "Handle skipped quarantine" to the end: the checks on the
\* quarantine result, then fusion, which answers or raises
Decide ==
    /\ pc = "decide"
    /\ LET gate == QuarantineGates(pipe.config_loaded, policy, req,
                                   llm_analysis_result, quarantine_result)
       IN  IF gate # NoResponse
           THEN Return(gate) /\ UNCHANGED ran
           ELSE /\ ran' = Append(ran, "fusion")
                /\ IF FusionRaises(quarantine_result)
                   THEN pc' = "raised" /\ UNCHANGED response
                   ELSE Return(FinalResponse(pipe.config_loaded, policy, req,
                                   FusionVerdict(pipe.config_loaded, policy, input_result,
                                                 llm_analysis_result, quarantine_result)))
    /\ UNCHANGED <<outside, pipe, policy, req, input_result, llm_analysis_result,
                   quarantine_result, calls>>

\* routes.analyze after pipeline.analyze has returned or raised: the
\* `finally` block puts the pipeline's configuration back and the handler
\* answers; the pipeline is ready for the next request
Finish ==
    /\ pc \in {"done", "raised"}
    /\ pc' = "idle"
    /\ pipe' = [pipe EXCEPT !.config_loaded = FALSE]
    /\ policy' = DefaultPolicy
    /\ req' = NoRequest
    /\ input_result' = NoResult
    /\ llm_analysis_result' = NoResult
    /\ quarantine_result' = NoResult
    /\ ran' = << >>
    /\ calls' = << >>
    /\ response' = NoResponse
    /\ UNCHANGED outside

Next ==
    \/ Receive
    \/ Finish
    \/ RbacGate
    \/ ChainingGate
    \/ InputStage
    \/ LlmStart
    \/ AnalystSchemaCall
    \/ AnalystJsonCall
    \/ AnalystPlainCall
    \/ LlmGate
    \/ QuarantineStart
    \/ QuarantineStage1Call
    \/ QuarantineSchemaCall
    \/ QuarantineJsonCall
    \/ Decide

Spec == Init /\ [][Next]_vars

----------------------------------------------------------------------------
(* Properties                                                              *)

Done == pc = "done"

IsBlocked == Done /\ response.final_decision = "BLOCKED"

PolicyLoaded == pipe.config_loaded

\* the request has left the gate at position `at` behind
Past(positions) == pc \notin ({"idle"} \cup positions)

\* C1: a request that carries a user_role while a policy is loaded, and
\* whose role is not permitted to call the function, goes no further than
\* the RBAC check: it is answered BLOCKED with blocked_at = rbac.
C1_RbacDenialBlocks ==
    (/\ Past({"rbac"})
     /\ PolicyLoaded /\ Truthy(req.user_role)
     /\ ~check_role_permission(policy, req.user_role, Fn))
    => (IsBlocked /\ response.blocked_at = "rbac")

\* a role that has an entry under roles, without the permission, was
\* answered by the RBAC check
C1_Witness ==
    /\ Done /\ PolicyLoaded /\ req.user_role = Role
    /\ Role \in DOMAIN policy.roles
    /\ ~check_role_permission(policy, Role, Fn)
    /\ response.blocked_at = "rbac"

\* the source function's block-list names "*" or the target
TargetIsBlocked ==
    /\ Fn \in DOMAIN policy.function_chaining
    /\ policy.function_chaining[Fn].blocked_targets \cap {Star, req.target_function} # {}

AnalystCalls == SelectSeq(calls, LAMBDA c : c[1] = "analyst")

\* C10: in the analyst, a completer call that times out (json_schema,
\* json_object or unformatted) is the analyst's last call for the request,
\* and the analyst returns decision = ERROR with score 0.0.
C10_AnalystTimeoutEndsLadder ==
    \A i \in DOMAIN AnalystCalls :
        AnalystCalls[i][3] = "timeout"
        => /\ i = Len(AnalystCalls)
           /\ pc \notin {"analyst_schema", "analyst_json", "analyst_plain"}
           /\ llm_analysis_result.decision = "ERROR"
           /\ llm_analysis_result.score_key = "num"
           /\ llm_analysis_result.score = 0

\* the second step of the ladder timed out and the request was answered
C10_Witness ==
    /\ Done
    /\ AnalystCalls = << Call("analyst", "json_schema", "rejected"),
                         Call("analyst", "json_object", "timeout") >>
    /\ llm_analysis_result.decision = "ERROR"

RanSet == {ran[i] : i \in DOMAIN ran}

\* the scores reported by the stages that ran
StageScores ==
    (IF "input_analysis" \in RanSet THEN {input_result.score} ELSE {})
    \cup (IF "llm_analysis" \in RanSet /\ llm_analysis_result.score_key = "num"
          THEN {llm_analysis_result.score} ELSE {})
    \cup (IF "quarantine_analysis" \in RanSet /\ quarantine_result.score_key = "num"
          THEN {quarantine_result.score} ELSE {})

\* C2: whichever stages are enabled, a request for which some stage that ran
\* reports a score at or above the policy's block_threshold is answered
\* BLOCKED, never ALLOWED or ALLOWED_WITH_WARNING.
C2_ScoreAtBlockThresholdBlocks ==
    (/\ Done /\ PolicyLoaded
     /\ \E score \in StageScores : score >= policy.decision_thresholds.block_threshold)
    => response.final_decision = "BLOCKED"

\* C3 (as claimed): safe_to_use is true exactly when final_decision is
\* ALLOWED, and false for every other decision value.
C3_SafeExactlyWhenAllowed ==
    Done => (response.safe_to_use <=> response.final_decision = "ALLOWED")

\* C3 (amended): final_decision is ALLOWED, ALLOWED_WITH_WARNING or BLOCKED,
\* and safe_to_use is false exactly when it is BLOCKED: an
\* ALLOWED_WITH_WARNING response carries safe_to_use = true.
C3_SafeExactlyWhenNotBlocked ==
    Done => /\ response.final_decision \in {"ALLOWED", "ALLOWED_WITH_WARNING", "BLOCKED"}
            /\ response.safe_to_use <=> response.final_decision # "BLOCKED"

\* quarantine failed and the response says ALLOWED_WITH_WARNING, safe to use
C3_Witness ==
    /\ Done /\ quarantine_result.decision = "ERROR"
    /\ response.final_decision = "ALLOWED_WITH_WARNING"
    /\ response.safe_to_use

\* C4: every BLOCKED response, from a gate or from fusion, has a blocked_at
\* label that is not null and a reason that is not empty.
C4_BlockedCarriesLabelAndReason ==
    IsBlocked => /\ response.blocked_at # None
                 /\ response.reason \notin {None, ""}

\* C7: when the policy marks the function's output cannot_trigger_functions
\* and the request names a target_function, the request is BLOCKED whichever
\* stages it goes through.
C7_CannotTriggerBlocks ==
    (/\ Done /\ PolicyLoaded
     /\ check_output_restriction(policy, Fn).cannot_trigger_functions
     /\ Truthy(req.target_function))
    => response.final_decision = "BLOCKED"

\* C8: a response says ALLOWED_WITH_WARNING only if quarantine returned
\* ERROR and no gate before it took a block decision (input classification
\* passed, the analyst neither answered BLOCK nor reported violations).
C8_WarningOnlyAfterCleanGates ==
    (Done /\ response.final_decision = "ALLOWED_WITH_WARNING")
    => /\ quarantine_result.decision = "ERROR"
       /\ input_result.decision # "BLOCK"
       /\ ~(/\ llm_analysis_result.present
            /\ (llm_analysis_result.decision = "BLOCK"
                \/ llm_analysis_result.policy_violations))

\* the analyst called the completer and gave up
AnalystGaveUp ==
    /\ AnalystCalls # << >>
    /\ pc \notin {"analyst_schema", "analyst_json", "analyst_plain"}
    /\ llm_analysis_result.decision = "ERROR"

\* C9: a stage that gives up on a completer failure returns decision =
\* ERROR with score 0.0, and the request is not blocked on the strength of
\* that stage: with quarantine passing below the allow threshold, fusion
\* does not block.
C9_CompleterFailureScoresZero ==
    /\ AnalystGaveUp
       => llm_analysis_result.score_key = "num" /\ llm_analysis_result.score = 0
    /\ quarantine_result.decision = "ERROR"
       => quarantine_result.score_key = "num" /\ quarantine_result.score = 0
    /\ (/\ Done /\ PolicyLoaded /\ AnalystGaveUp
        /\ quarantine_result.decision = "PASS"
        /\ quarantine_result.score < policy.decision_thresholds.allow_threshold)
       => response.blocked_at \notin {"llm_analysis", "severity_rule", "threshold"}

\* the order in which analyze reaches its stages
ExecutionOrder ==
    << "rbac", "function_chaining", "keyword_detection", "input_analysis",
       "llm_analysis", "quarantine_analysis", "fusion" >>

IndexIn(order, stage) == CHOOSE i \in DOMAIN order : order[i] = stage

InOrder(log, order) ==
    \A i, j \in DOMAIN log :
        i < j => IndexIn(order, log[i]) < IndexIn(order, log[j])

InputLabels ==
    {"severity_rule_input", "context_rule", "input_analysis"}

\* the stage whose gate a blocked_at label belongs to; fusion labels its
\* threshold block llm_analysis or quarantine_analysis
GateStage(at) ==
    CASE "fusion" \in RanSet -> "fusion"
      [] at = "rbac" -> "rbac"
      [] at = "function_chaining" -> "function_chaining"
      [] at \in InputLabels -> "input_analysis"
      [] at = "keyword_detection" -> "keyword_detection"
      [] at \in {"llm_analysis", "severity_rule_llm_analysis"} -> "llm_analysis"
      [] at \in {"quarantine_analysis", "severity_rule_quarantine"} -> "quarantine_analysis"
      [] OTHER -> "fusion"

\* position of a stage's gate in the claimed order; the keyword detector is
\* computed before the input classifier and its gate is decided after the
\* input gates, so neither stage counts as running after the other
GateRank(stage) ==
    CASE stage = "rbac" -> 1
      [] stage = "function_chaining" -> 2
      [] stage \in {"input_analysis", "keyword_detection"} -> 3
      [] stage = "llm_analysis" -> 4
      [] stage = "quarantine_analysis" -> 5
      [] OTHER -> 6

\* C5 (as claimed): the gates are decided in the order RBAC, chaining, input
\* classification, keyword detection, LLM analyst, quarantine, fusion, and no
\* stage after the gate named by blocked_at has run.
C5_NoStageAfterBlockingGate ==
    /\ \A i, j \in DOMAIN ran : i < j => GateRank(ran[i]) <= GateRank(ran[j])
    /\ IsBlocked =>
           \A i \in DOMAIN ran :
               GateRank(ran[i]) <= GateRank(GateStage(response.blocked_at))

\* C5 (amended): the stages run in the order RBAC, chaining, keyword
\* detection, input classification, LLM analyst, quarantine, fusion, and the
\* input gates are decided before the keyword gate: a request whose input
\* classification says BLOCK is blocked at an input gate. A request blocked at rbac, at function_chaining, at keyword_detection or at
\* an input gate has run no analyst, quarantine or fusion, and one blocked at
\* severity_rule_llm_analysis has run no quarantine or fusion. An input
\* classification BLOCK is never followed by a later stage. An analyst
\* BLOCK that no blocking severity rule covers lets quarantine run: a
\* response blocked at llm_analysis after quarantine ran comes either from
\* such an analyst BLOCK or from fusion.
C5_GatesInExecutionOrder ==
    /\ InOrder(ran, ExecutionOrder)
    /\ (req.input_analysis /\ input_result.decision = "BLOCK")
       => /\ RanSet \cap {"llm_analysis", "quarantine_analysis", "fusion"} = {}
          /\ Done => /\ IsBlocked
                     /\ response.blocked_at \in InputLabels \cup {"output_restriction"}
    /\ IsBlocked =>
         LET at == response.blocked_at IN
         /\ at = "rbac" => ran = << "rbac" >>
         /\ at = "function_chaining" => ran[Len(ran)] = "function_chaining"
         /\ at \in InputLabels \cup {"keyword_detection"}
            => RanSet \cap {"llm_analysis", "quarantine_analysis", "fusion"} = {}
         /\ at = "severity_rule_llm_analysis"
            => /\ "llm_analysis" \in RanSet
               /\ RanSet \cap {"quarantine_analysis", "fusion"} = {}
         /\ (at = "llm_analysis" /\ "quarantine_analysis" \in RanSet)
            => \/ "fusion" \in RanSet
               \/ llm_analysis_result.decision = "BLOCK"
         /\ at \in {"quarantine_analysis", "severity_rule_quarantine"}
            => "quarantine_analysis" \in RanSet
         /\ at \in {"severity_rule", "threshold"} => "fusion" \in RanSet
         /\ at = "output_restriction"
            => \/ "fusion" \in RanSet
               \/ RanSet \cap {"llm_analysis", "quarantine_analysis"} = {}

\* an analyst BLOCK, then quarantine, then the response blocked at llm_analysis
C5_Witness ==
    /\ IsBlocked /\ response.blocked_at = "llm_analysis"
    /\ llm_analysis_result.decision = "BLOCK"
    /\ "quarantine_analysis" \in RanSet
    /\ "fusion" \notin RanSet

\* C11: in quarantine Stage 2, a json_schema completer call that times out
\* is the last completer call of the request: no json_object retry follows,
\* the probe returns ERROR with score 0.0, and a request whose analyst did
\* not answer BLOCK ends as ALLOWED_WITH_WARNING.
C11_QuarantineTimeoutEndsProbe ==
    \A i \in DOMAIN calls :
        calls[i] = Call("quarantine_stage2", "json_schema", "timeout")
        => /\ i = Len(calls)
           /\ pc # "q_json"
           /\ quarantine_result.decision = "ERROR"
           /\ quarantine_result.score_key = "num" /\ quarantine_result.score = 0
           /\ (Done /\ llm_analysis_result.decision # "BLOCK")
              => response.final_decision = "ALLOWED_WITH_WARNING"

----------------------------------------------------------------------------
(* A request replayed on given stage reports                               *)

\* analyze from the input gates to the response, as a function of what the
\* stages report; the keyword gate is taken as passed.  "RAISED" stands for
\* the exception fusion raises on a severity of None.
Replay(config_loaded, config, r, quarantine_on, input, llm, threats_found, quarantine) ==
    LET input_gate == InputGates(config_loaded, config, r, input, NoKeywords)
        analyst_gate ==
            IF ~r.llm_analysis THEN NoResponse
            ELSE IF llm.policy_violations
            THEN Blocked("llm_analysis", "LLM analysis detected policy violations")
            ELSE IF /\ llm.decision = "BLOCK"
                    /\ config_loaded /\ Truthy(llm.severity)
                    /\ get_severity_rule(config, llm.severity).block
            THEN Blocked("severity_rule_llm_analysis",
                         "Severity rule requires blocking (from LLM analysis)")
            ELSE IF ~r.quarantine_analysis
            THEN IF llm.error
                 THEN Resp("ALLOWED", None, "LLM analysis failed or is not available",
                           TRUE, Nothing,
                           "LLM analysis failed, proceeding with input analysis only")
                 ELSE LlmOnlyVerdict(config_loaded, config, llm, threats_found, "")
            ELSE NoResponse
        q == IF r.quarantine_analysis /\ quarantine_on THEN quarantine ELSE QuarantineSkipped
        quarantine_gate == QuarantineGates(config_loaded, config, r, llm, q)
    IN  IF input_gate # NoResponse THEN input_gate
        ELSE IF analyst_gate # NoResponse THEN analyst_gate
        ELSE IF quarantine_gate # NoResponse THEN quarantine_gate
        ELSE IF FusionRaises(q)
        THEN Resp("RAISED", None, None, FALSE, Nothing, None)
        ELSE FinalResponse(config_loaded, config, r,
                           FusionVerdict(config_loaded, config, input, llm, q))

\* the reports of the finished request determine its replay: the stages the
\* request asks for have reported, and the keyword gate was passed
ReplayDetermined ==
    /\ Done
    /\ input_result.present
    /\ req.enable_keyword_detection => response.blocked_at # "keyword_detection"
    /\ req.llm_analysis => llm_analysis_result.present
    /\ (req.quarantine_analysis /\ pipe.enable_quarantine) => quarantine_result.present

\* whether the analyst's answer listed threats, as far as the response shows
ThreatsSeen ==
    response.reason \in {"LLM analysis detected risk with threats",
                         "LLM analysis detected risk but severity rules allow it"}

ReplayOf(input, llm, quarantine) ==
    Replay(pipe.config_loaded, policy, req, pipe.enable_quarantine,
           input, llm, ThreatsSeen, quarantine)

\* replaying a finished request on its own reports gives its decision
ReplayAgrees ==
    ReplayDetermined
    => ReplayOf(input_result, llm_analysis_result, quarantine_result).final_decision
           = response.final_decision

\* the ranking of severities the claims speak of
SeverityRank(s) ==
    CASE s = "safe" -> 0 [] s = "low" -> 1 [] s = "medium" -> 2
      [] s = "high" -> 3 [] OTHER -> 4

Higher(s) ==
    IF s \in Severities
    THEN {t \in Severities : SeverityRank(t) > SeverityRank(s)}
    ELSE {}

\* the decisions of the second runs: the finished request replayed with one
\* stage that reported reporting a higher severity, everything else the same
HigherSeverityReruns ==
    {ReplayOf([input_result EXCEPT !.severity = t], llm_analysis_result,
              quarantine_result).final_decision :
        t \in IF "input_analysis" \in RanSet THEN Higher(input_result.severity) ELSE {}}
    \cup
    {ReplayOf(input_result, [llm_analysis_result EXCEPT !.severity = t],
              quarantine_result).final_decision :
        t \in IF "llm_analysis" \in RanSet THEN Higher(llm_analysis_result.severity) ELSE {}}
    \cup
    {ReplayOf(input_result, llm_analysis_result,
              [quarantine_result EXCEPT !.severity = t]).final_decision :
        t \in IF "quarantine_analysis" \in RanSet
              THEN Higher(quarantine_result.severity) ELSE {}}

\* C12 (as claimed): a BLOCKED request, run again with one stage reporting
\* a higher severity and nothing else changed, is not ALLOWED.
C12_SeverityMonotone ==
    (ReplayDetermined /\ IsBlocked) => "ALLOWED" \notin HigherSeverityReruns

\* the policy itself never treats a higher severity more leniently: a
\* severity rule that blocks, or refuses output use, does so for every
\* higher severity, and so does the outcome of the context rules
MonotonePolicy(config) ==
    \A s, t \in Severities :
        SeverityRank(s) < SeverityRank(t)
        => /\ get_severity_rule(config, s).block => get_severity_rule(config, t).block
           /\ ~get_severity_rule(config, s).allow_output_use
              => ~get_severity_rule(config, t).allow_output_use
           /\ evaluate_context_rules(config, Fn, s).block
              => evaluate_context_rules(config, Fn, t).block

\* C12 (amended): under a policy whose severity rules and context rules
\* never treat a higher severity more leniently, a BLOCKED request run again
\* with one stage reporting a higher severity is not ALLOWED.  A policy may
\* state a blocking context rule on "<" or "<=" a severity, and then it is.
C12_SeverityMonotoneUnderMonotonePolicy ==
    (/\ ReplayDetermined /\ IsBlocked
     /\ PolicyLoaded => MonotonePolicy(policy))
    => "ALLOWED" \notin HigherSeverityReruns

\* a request blocked by a context rule on ">=low" at severity medium, whose
\* reruns at high and critical are decided again
C12_Witness ==
    /\ ReplayDetermined /\ IsBlocked /\ PolicyLoaded /\ MonotonePolicy(policy)
    /\ response.blocked_at = "context_rule"
    /\ policy.context_rules[1].condition.severity = << ">", "=", "low" >>
    /\ input_result.severity = "medium"
    /\ HigherSeverityReruns = {"BLOCKED"}

\* the analyst answered a request made in full mode
AnsweredInFull ==
    /\ Done /\ PolicyLoaded /\ ~req.quick_analysis
    /\ "llm_analysis" \in RanSet
    /\ llm_analysis_result.present /\ ~llm_analysis_result.error

\* the decision of the same request made with quick_analysis = true, the
\* analyst and the other stages answering the same
QuickRerun ==
    LET answer == [decision |-> llm_analysis_result.decision,
                   score |-> llm_analysis_result.score,
                   severity |-> llm_analysis_result.severity,
                   policy_violations |-> llm_analysis_result.policy_violations]
    IN  Replay(pipe.config_loaded, policy, [req EXCEPT !.quick_analysis = TRUE],
               pipe.enable_quarantine, input_result, AnalystResult(answer, TRUE),
               FALSE, quarantine_result).final_decision

\* C13: a request that is BLOCKED in full mode is not ALLOWED when it is
\* made with quick_analysis = true and every model output is the same.
C13_QuickModeKeepsBlocks ==
    (ReplayDetermined /\ AnsweredInFull /\ IsBlocked) => QuickRerun # "ALLOWED"

SetMax(S) == CHOOSE x \in S : \A y \in S : y <= x

\* C14: when a request reaches fusion, final_score is the largest of the
\* scores of the stages that ran and reported one, and a request whose
\* largest score is at or above the block threshold is BLOCKED.
C14_FinalScoreIsMaxStageScore ==
    (Done /\ "fusion" \in RanSet /\ StageScores # {})
    => /\ response.final_score = Some(SetMax(StageScores))
       /\ SetMax(StageScores) >= (IF PolicyLoaded
                                  THEN get_decision_thresholds(policy).block_threshold
                                  ELSE DefaultThresholds.block_threshold)
          => response.final_decision = "BLOCKED"

-----------------------------------------------------------------------------
(* The analyze and shield routes on the global pipeline                    *)

Empty(d) == DOMAIN d = {}

\* the policies a request may resolve to, as far as the pipeline sees them:
\* each section empty or filled
RoutePolicies ==
    [roles : {NoEntries, [k \in {"user"} |-> "all"]},
     functions : {NoEntries, [k \in {Target} |-> [f \in {"quarantine_exclude"} |-> "yes"]]},
     context_rules : {<< >>, << "policy rule" >>},
     custom_prompts : {NoEntries, [k \in {"llm_agent_system_prompt"} |-> "policy prompt"]}]

\* PolicyRepository.to_config_dict: the default structure, with every
\* non-empty section of the policy put over it
to_config_dict(p) ==
    ConfigDict(IF Empty(p.roles) THEN build_default_config.roles ELSE p.roles,
               IF Empty(p.functions) THEN build_default_config.functions ELSE p.functions,
               IF p.context_rules = << >> THEN build_default_config.context_rules
               ELSE p.context_rules)

\* the merge loop of routes.analyze run on the copy `original_config`:
\* dict sections are updated key by key, the settings of a function that is
\* already there are updated in place, anything else is replaced
MergedConfig(original_config, policy_config) ==
    ConfigDict(Updated(original_config.roles, policy_config.roles),
               [k \in DOMAIN original_config.functions \cup DOMAIN policy_config.functions |->
                   IF k \notin DOMAIN policy_config.functions
                   THEN original_config.functions[k]
                   ELSE IF k \in DOMAIN original_config.functions
                        THEN Updated(original_config.functions[k], policy_config.functions[k])
                        ELSE policy_config.functions[k]],
               policy_config.context_rules)

\* the custom prompts the pipeline works with: None and {} both mean none
PromptsInUse(custom_prompts) ==
    IF custom_prompts = Nothing THEN NoEntries ELSE custom_prompts[1]

\* routes.analyze from the policy it resolved to the call of
\* pipeline.analyze.  In the merge branch `original_config` is the copy the
\* loop writes into, so it holds the merged configuration.
AnalyzeLoadsPolicy ==
    /\ handler.at = "idle"
    /\ \E p \in RoutePolicies :
         LET policy_config == to_config_dict(p)
             custom_prompts == IF Empty(p.custom_prompts) THEN shared.custom_prompts
                               ELSE Some(p.custom_prompts)
         IN  IF shared.config = Nothing
             THEN /\ shared' = [config |-> Some(policy_config),
                                custom_prompts |-> custom_prompts]
                  /\ handler' = [at |-> "analyze", config_was_none |-> TRUE,
                                 original_config |-> Nothing,
                                 original_custom_prompts |-> shared.custom_prompts]
             ELSE LET original_config == MergedConfig(shared.config[1], policy_config)
                  IN  /\ shared' = [config |-> Some(original_config),
                                    custom_prompts |-> custom_prompts]
                      /\ handler' = [at |-> "analyze", config_was_none |-> FALSE,
                                     original_config |-> Some(original_config),
                                     original_custom_prompts |-> shared.custom_prompts]
    /\ before' = shared
    /\ UNCHANGED <<analyzeVars, storeVars, evalVars, traceVars>>

\* the `finally` block of routes.analyze, run when pipeline.analyze returns
\* and when it raises
AnalyzeFinally ==
    /\ handler.at = "analyze"
    /\ shared' = [config |-> IF handler.config_was_none THEN Nothing
                             ELSE IF handler.original_config # Nothing
                                  THEN handler.original_config
                                  ELSE shared.config,
                  custom_prompts |-> handler.original_custom_prompts]
    /\ handler' = HandlerIdle
    /\ UNCHANGED <<before, analyzeVars, storeVars, evalVars, traceVars>>

\* analyze_with_shield up to the call of pipeline.analyze
ShieldSetsPrompt ==
    /\ handler.at = "idle"
    /\ shared' = [shared EXCEPT !.custom_prompts =
                     Some([k \in {"llm_agent_system_prompt"} |-> "shield prompt"])]
    /\ handler' = [at |-> "shield", config_was_none |-> FALSE,
                   original_config |-> Nothing,
                   original_custom_prompts |-> Some(PromptsInUse(shared.custom_prompts))]
    /\ before' = shared
    /\ UNCHANGED <<analyzeVars, storeVars, evalVars, traceVars>>

\* the `finally` block of analyze_with_shield
ShieldFinally ==
    /\ handler.at = "shield"
    /\ shared' = [shared EXCEPT !.custom_prompts = handler.original_custom_prompts]
    /\ handler' = HandlerIdle
    /\ UNCHANGED <<before, analyzeVars, storeVars, evalVars, traceVars>>

\* the server starts with or without a configuration file; the handlers
\* are coroutines that never await between load and `finally`, so one
\* request is inside a handler at a time
RoutesInit ==
    /\ pipe = ServerPipeline
    /\ AnalyzeAtRest
    /\ shared \in BootChoices
    /\ handler = HandlerIdle
    /\ before = shared
    /\ StoreAtRest
    /\ EvalAtRest
    /\ TracesAtRest

RoutesNext ==
    \/ AnalyzeLoadsPolicy
    \/ AnalyzeFinally
    \/ ShieldSetsPrompt
    \/ ShieldFinally

RoutesSpec == RoutesInit /\ [][RoutesNext]_vars

\* C15: when a handler has finished, the pipeline's configuration and the
\* custom prompts it works with are what they were before the request
C15_RequestLeavesNothingBehind ==
    handler.at = "idle" =>
        /\ shared.config = before.config
        /\ PromptsInUse(shared.custom_prompts) = PromptsInUse(before.custom_prompts)

-----------------------------------------------------------------------------
(* The policy store: governance_policies and the handlers that write it    *)

Owners == {"alice", "bob"}

PolicyKeys == {"default", "k"}

\* Bound: the id sequence of the table hands out at most this many ids.
MaxPolicyIds == 3

\* GovernancePolicy(...): a new row; is_active defaults to True
GovernancePolicy(id, policy_key, owner_id, is_default, roles, context_rules) ==
    [id |-> id, policy_key |-> policy_key, owner_id |-> owner_id,
     is_default |-> is_default, is_active |-> TRUE, roles |-> roles,
     context_rules |-> context_rules]

\* The queries below give every row the query matches; `.first()` takes
\* any one of them.
get_by_key(rows, policy_key, owner_id) ==
    {r \in rows : r.policy_key = policy_key /\ (owner_id = None \/ r.owner_id = owner_id)}

get_by_id(rows, policy_id) == {r \in rows : r.id = policy_id}

get_default(rows, owner_id) ==
    {r \in rows : r.is_default /\ r.is_active /\ (owner_id = None \/ r.owner_id = owner_id)}

get_by_owner(rows, owner_id) == {r \in rows : r.owner_id = owner_id}

\* a JSON value inside a dict section: a dict of plain values or a plain
\* value
Dict(fields) == [dict |-> TRUE, fields |-> fields, value |-> None]

Plain(value) == [dict |-> FALSE, fields |-> NoEntries, value |-> value]

IsDict(v) == v.dict

Fields(v) == v.fields

\* PolicyRepository._deep_merge_dict on dicts whose values are either plain
\* values (strings) or dicts of plain values
_deep_merge_dict(old_dict, new_dict) ==
    IF Empty(old_dict) THEN new_dict
    ELSE IF Empty(new_dict) THEN old_dict
    ELSE [k \in DOMAIN old_dict \cup DOMAIN new_dict |->
            IF k \notin DOMAIN new_dict THEN old_dict[k]
            ELSE IF k \in DOMAIN old_dict /\ IsDict(old_dict[k]) /\ IsDict(new_dict[k])
                 THEN IF Empty(Fields(old_dict[k])) THEN new_dict[k]
                      ELSE IF Empty(Fields(new_dict[k])) THEN old_dict[k]
                      ELSE Dict(Updated(Fields(old_dict[k]), Fields(new_dict[k])))
                 ELSE new_dict[k]]

\* PolicyRepository.update with context_rules appended to the policy's own
PatchedPolicyAppending(row, patch) ==
    [row EXCEPT
        !.roles = IF patch.roles = Nothing THEN @
                  ELSE IF ~Empty(@) THEN _deep_merge_dict(@, patch.roles[1])
                       ELSE patch.roles[1],
        !.context_rules = IF patch.context_rules = Nothing THEN @
                          ELSE @ \o patch.context_rules[1],
        !.is_active = IF patch.is_active = Nothing THEN @ ELSE patch.is_active[1],
        !.is_default = IF patch.is_default = Nothing THEN @ ELSE patch.is_default[1]]

\* PolicyRepository.update on the loaded row: the assignments it makes to
\* the ORM object before the commit.  Dict sections are merged when the row
\* has a non-empty one and put in place otherwise; context_rules are
\* replaced; the flags are set when given.
PatchedPolicy(row, patch) ==
    [row EXCEPT
        !.roles = IF patch.roles = Nothing THEN @
                  ELSE IF ~Empty(@) THEN _deep_merge_dict(@, patch.roles[1])
                       ELSE patch.roles[1],
        !.context_rules = IF patch.context_rules = Nothing THEN @
                          ELSE patch.context_rules[1],
        !.is_active = IF patch.is_active = Nothing THEN @ ELSE patch.is_active[1],
        !.is_default = IF patch.is_default = Nothing THEN @ ELSE patch.is_default[1]]

\* the ids the bulk UPDATE of PolicyRepository.update sets is_default = False
\* on: every other default row, whoever owns it
OtherDefaults(rows, policy_id, patch) ==
    IF patch.is_default = Some(TRUE)
    THEN {r.id : r \in {x \in rows : x.is_default /\ x.id # policy_id}}
    ELSE {}

\* PolicyRepository.create without the bulk UPDATE
OwnerDefaultsKept(rows, owner_id, is_default) == {}

\* the ids the bulk UPDATE of PolicyRepository.create sets is_default = False
\* on: the owner's default rows
OwnerDefaults(rows, owner_id, is_default) ==
    IF is_default
    THEN {r.id : r \in {x \in rows : x.is_default /\ x.owner_id = owner_id}}
    ELSE {}

\* rows after UPDATE ... SET is_default = False on the rows `ids`
Cleared(rows, ids) ==
    {IF r.id \in ids THEN [r EXCEPT !.is_default = FALSE] ELSE r : r \in rows}

\* the flush of a changed ORM object: the attributes whose value differs
\* from the loaded one are written over the row as it is now
Flushed(current, loaded, patched) ==
    [current EXCEPT
        !.roles = IF patched.roles # loaded.roles THEN patched.roles ELSE @,
        !.context_rules = IF patched.context_rules # loaded.context_rules
                          THEN patched.context_rules ELSE @,
        !.is_active = IF patched.is_active # loaded.is_active
                      THEN patched.is_active ELSE @,
        !.is_default = IF patched.is_default # loaded.is_default
                       THEN patched.is_default ELSE @]

\* PolicyRepository.update from the first statement to the commit, run
\* with nothing else touching the table
update(rows, policy_id, patch) ==
    IF get_by_id(rows, policy_id) = {} THEN rows
    ELSE LET loaded == CHOOSE r \in rows : r.id = policy_id
             cleared == Cleared(rows, OtherDefaults(rows, policy_id, patch))
         IN  {IF r.id = policy_id
              THEN Flushed(r, loaded, PatchedPolicy(loaded, patch)) ELSE r :
              r \in cleared}

\* the PolicyUpdate bodies of the store's requests: the flags, given or not
StorePatches ==
    { p \in [roles : {Nothing}, context_rules : {Nothing},
             is_active : {Nothing, Some(TRUE), Some(FALSE)},
             is_default : {Nothing, Some(TRUE), Some(FALSE)}] : p # NoPatch }

\* the session of a request that has its answer: nothing pending, the
\* status of the response and, for analyze, the policy row it went on with
Closed(op, user, policy_key, status, used) ==
    [IdleSession EXCEPT !.at = "closed", !.op = op, !.user = user,
                        !.policy_key = policy_key, !.status = status, !.used = used]

\* the session of a request about to call PolicyRepository.create
Creating(op, user, policy_key, is_default) ==
    [IdleSession EXCEPT !.at = "create", !.op = op, !.user = user,
                        !.policy_key = policy_key, !.is_default = is_default]

\* analyze goes on with the policy `p`, or answers 403 when it is not active
Uses(user, policy_key, p) ==
    Closed("analyze", user, policy_key, IF p.is_active THEN 200 ELSE 403, Some(p))

\* the rows another session has updated and not yet committed are locked
LockedByOthers(i) == UNION {session[j].updated : j \in Sessions \ {i}}

\* create_policy up to the call of PolicyRepository.create: 400 when any
\* row, of any owner, has the key
CreatePolicyChecks(i, users, flags) ==
    /\ session[i].at = "idle"
    /\ \E user \in users, policy_key \in PolicyKeys, is_default \in flags :
         session' = [session EXCEPT ![i] =
             IF get_by_key(db.rows, policy_key, None) # {}
             THEN Closed("create_policy", user, policy_key, 400, Nothing)
             ELSE Creating("create_policy", user, policy_key, is_default)]
    /\ UNCHANGED <<db, analyzeVars, routeVars, evalVars, traceVars>>

\* routes.analyze, the policy lookup: with a key, the owner's row, else a
\* new "default" when that is the key, else anyone's row with the key, else
\* 404; without a key, the owner's default, else anyone's default, else a
\* new "default"
AnalyzeFindsPolicy(i, users) ==
    /\ session[i].at = "idle"
    /\ \E user \in users, policy_key \in PolicyKeys \cup {None} :
         LET own == IF policy_key = None THEN get_default(db.rows, user)
                    ELSE get_by_key(db.rows, policy_key, user)
             any == IF policy_key = None THEN get_default(db.rows, None)
                    ELSE get_by_key(db.rows, policy_key, None)
         IN  IF own # {}
             THEN \E p \in own : session' = [session EXCEPT ![i] = Uses(user, policy_key, p)]
             ELSE IF policy_key = "default" \/ (policy_key = None /\ any = {})
             THEN session' = [session EXCEPT ![i] = Creating("analyze", user, "default", TRUE)]
             ELSE IF any # {}
             THEN \E p \in any : session' = [session EXCEPT ![i] = Uses(user, policy_key, p)]
             ELSE session' = [session EXCEPT ![i] = Closed("analyze", user, policy_key, 404, Nothing)]
    /\ UNCHANGED <<db, analyzeVars, routeVars, evalVars, traceVars>>

\* list_policies with create_default_policy: a default policy is created
\* only when the user has no policy, no row is keyed "default" and no row
\* of anyone is an active default
ListPoliciesLooksUp(i, users) ==
    /\ session[i].at = "idle"
    /\ \E user \in users :
         session' = [session EXCEPT ![i] =
             IF \/ get_by_owner(db.rows, user) # {}
                \/ get_by_key(db.rows, "default", None) # {}
                \/ get_default(db.rows, None) # {}
             THEN Closed("list_policies", user, None, 200, Nothing)
             ELSE Creating("list_policies", user, "default", TRUE)]
    /\ UNCHANGED <<db, analyzeVars, routeVars, evalVars, traceVars>>

\* migrate_ensure_per_user_default_policies, run when a server starts: an
\* owner who has policies but none keyed "default" gets one, made the
\* default
EnsureDefaultPolicies(i) ==
    /\ session[i].at = "idle"
    /\ \E owner_id \in {r.owner_id : r \in db.rows} :
         /\ get_by_key(db.rows, "default", owner_id) = {}
         /\ session' = [session EXCEPT ![i] =
                Creating("migration", owner_id, "default", TRUE)]
    /\ UNCHANGED <<db, analyzeVars, routeVars, evalVars, traceVars>>

\* PolicyRepository.create, the bulk UPDATE: the owner's defaults are
\* cleared when the new policy is to be the default; the statement waits
\* for rows another session holds
RepoCreateClears(i) ==
    /\ session[i].at = "create"
    /\ LET ids == OwnerDefaults(db.rows, session[i].user, session[i].is_default)
       IN  /\ ids \cap LockedByOthers(i) = {}
           /\ session' = [session EXCEPT ![i].at = "insert", ![i].updated = ids]
    /\ UNCHANGED <<db, analyzeVars, routeVars, evalVars, traceVars>>

\* what a request answers when PolicyRepository.create raises:
\* list_policies logs the error and answers its list
StatusOnError(op) == IF op = "list_policies" THEN 200 ELSE 500

\* the session of a request whose database work raised
Failed(op, user, policy_key) ==
    [Closed(op, user, policy_key, StatusOnError(op), Nothing) EXCEPT !.failed = TRUE]

\* PolicyRepository.create, the INSERT of the flush.  The index it can fail
\* on is uix_policy_owner, unique on (policy_key, owner_id), which the
\* startup migration fix_policy_key_uniqueness puts in place of the
\* column's own unique index; the INSERT waits for a session that has
\* inserted the same pair.  The id comes from the table's sequence.
RepoCreateInserts(i) ==
    /\ session[i].at = "insert"
    /\ \A j \in Sessions \ {i} :
          session[j].added # Nothing =>
              \/ session[j].added[1].policy_key # session[i].policy_key
              \/ session[j].added[1].owner_id # session[i].user
    /\ IF get_by_key(db.rows, session[i].policy_key, session[i].user) # {}
       THEN /\ session' = [session EXCEPT ![i] =
                   Failed(session[i].op, session[i].user, session[i].policy_key)]
            /\ UNCHANGED db
       ELSE /\ db.seq <= MaxPolicyIds
            /\ session' = [session EXCEPT ![i].at = "commit", ![i].added =
                   Some(GovernancePolicy(db.seq, session[i].policy_key, session[i].user,
                                         session[i].is_default, NoEntries, << >>))]
            /\ db' = [db EXCEPT !.seq = @ + 1]
    /\ UNCHANGED <<analyzeVars, routeVars, evalVars, traceVars>>

\* update_policy up to the call of PolicyRepository.update, and its load
\* of the row
UpdatePolicyLoads(i, users, patches) ==
    /\ session[i].at = "idle"
    /\ \E user \in users, policy_id \in 1..MaxPolicyIds, patch \in patches :
         session' = [session EXCEPT ![i] =
             IF get_by_id(db.rows, policy_id) = {}
             THEN Closed("update_policy", user, None, 404, Nothing)
             ELSE LET p == CHOOSE r \in db.rows : r.id = policy_id
                  IN  IF p.owner_id # user
                      THEN Closed("update_policy", user, p.policy_key, 403, Nothing)
                      ELSE [IdleSession EXCEPT !.at = "update", !.op = "update_policy",
                                !.user = user, !.policy_key = p.policy_key,
                                !.loaded = Some(p), !.patch = patch]]
    /\ UNCHANGED <<db, analyzeVars, routeVars, evalVars, traceVars>>

\* PolicyRepository.update, the bulk UPDATE that clears the other defaults
RepoUpdateClears(i) ==
    /\ session[i].at = "update"
    /\ LET ids == OtherDefaults(db.rows, session[i].loaded[1].id, session[i].patch)
       IN  /\ ids \cap LockedByOthers(i) = {}
           /\ session' = [session EXCEPT ![i].at = "commit", ![i].updated = ids]
    /\ UNCHANGED <<db, analyzeVars, routeVars, evalVars, traceVars>>

\* the request makes a policy the default: a new default row, or
\* is_default = true in the update body
MakesDefault(s) ==
    \/ s.added # Nothing /\ s.added[1].is_default
    \/ s.patch.is_default = Some(TRUE)

\* db.commit(): the changed ORM object is flushed, then everything the
\* session wrote becomes visible and its locks are gone
Commits(i) ==
    /\ session[i].at = "commit"
    /\ LET s == session[i]
           cleared == Cleared(db.rows, s.updated)
           written ==
               IF s.loaded = Nothing THEN cleared
               ELSE {IF r.id = s.loaded[1].id
                     THEN Flushed(r, s.loaded[1], PatchedPolicy(s.loaded[1], s.patch))
                     ELSE r : r \in cleared}
           rows == IF s.added = Nothing THEN written ELSE written \cup {s.added[1]}
       IN  /\ s.loaded # Nothing =>
                /\ get_by_id(db.rows, s.loaded[1].id) # {}
                /\ s.loaded[1].id \notin LockedByOthers(i)
           /\ db' = [db EXCEPT !.rows = rows]
           /\ session' = [session EXCEPT ![i] =
                  [Closed(s.op, s.user, s.policy_key,
                          IF s.op = "create_policy" THEN 201 ELSE 200,
                          IF s.op = "analyze" THEN s.added ELSE Nothing)
                   EXCEPT !.is_default = MakesDefault(s), !.cleared = s.updated,
                          !.loaded = s.loaded, !.patch = s.patch]]
    /\ UNCHANGED <<analyzeVars, routeVars, evalVars, traceVars>>

\* delete_policy: 404, 403 for another owner's row, else the row is gone
DeletePolicy(i, users) ==
    /\ session[i].at = "idle"
    /\ \E user \in users, policy_id \in 1..MaxPolicyIds :
         IF get_by_id(db.rows, policy_id) = {}
         THEN /\ session' = [session EXCEPT ![i] =
                     Closed("delete_policy", user, None, 404, Nothing)]
              /\ UNCHANGED db
         ELSE LET p == CHOOSE r \in db.rows : r.id = policy_id
              IN  IF p.owner_id # user
                  THEN /\ session' = [session EXCEPT ![i] =
                              Closed("delete_policy", user, p.policy_key, 403, Nothing)]
                       /\ UNCHANGED db
                  ELSE /\ policy_id \notin LockedByOthers(i)
                       /\ db' = [db EXCEPT !.rows = @ \ {p}]
                       /\ session' = [session EXCEPT ![i] =
                              Closed("delete_policy", user, p.policy_key, 204, Nothing)]
    /\ UNCHANGED <<analyzeVars, routeVars, evalVars, traceVars>>

\* a request that fails between its first statement and the commit: the
\* session is closed and what it wrote is rolled back
RollsBack(i) ==
    /\ session[i].at \in {"create", "insert", "update", "commit"}
    /\ session' = [session EXCEPT ![i] =
           Failed(session[i].op, session[i].user, session[i].policy_key)]
    /\ UNCHANGED <<db, analyzeVars, routeVars, evalVars, traceVars>>

\* the response is sent
Responds(i) ==
    /\ session[i].at = "closed"
    /\ session' = [session EXCEPT ![i] = IdleSession]
    /\ UNCHANGED <<db, analyzeVars, routeVars, evalVars, traceVars>>

StoreInit ==
    /\ pipe = ServerPipeline
    /\ AnalyzeAtRest
    /\ OutsideAtRest

\* one server process: its handlers are coroutines that never await, so
\* one request talks to the database at a time
StoreNext ==
    \/ CreatePolicyChecks(1, Owners, BOOLEAN)
    \/ AnalyzeFindsPolicy(1, Owners)
    \/ ListPoliciesLooksUp(1, Owners)
    \/ UpdatePolicyLoads(1, Owners, StorePatches)
    \/ DeletePolicy(1, Owners)
    \/ EnsureDefaultPolicies(1)
    \/ RepoCreateClears(1)
    \/ RepoCreateInserts(1)
    \/ RepoUpdateClears(1)
    \/ Commits(1)
    \/ RollsBack(1)
    \/ Responds(1)

StoreSpec == StoreInit /\ [][StoreNext]_vars

DefaultsOf(rows, owner_id) == {r \in rows : r.is_default /\ r.owner_id = owner_id}

\* C16: in every committed state of the table each owner has at most one
\* policy with is_default = true, whatever requests ran one after another
C16_OneDefaultPerOwner ==
    \A o \in Owners : Cardinality(DefaultsOf(db.rows, o)) <= 1

\* a request has just made a policy the default where the owner had one:
\* the old default was cleared and the new one is in the table
C16_Witness ==
    /\ session[1].at = "closed"
    /\ session[1].is_default
    /\ session[1].cleared # {}
    /\ \E r \in db.rows : r.owner_id = session[1].user /\ r.is_default
    /\ \E r \in db.rows : r.id \in session[1].cleared /\ ~r.is_default

\* the update body that makes a policy the default
DefaultPatch == [NoPatch EXCEPT !.is_default = Some(TRUE)]

\* several server processes on one database: the statements of two
\* requests interleave.  The requests are those that make a policy the
\* default, all of one owner.
ConcurrentStoreNext ==
    \E i \in Sessions :
        \/ CreatePolicyChecks(i, {"alice"}, {TRUE})
        \/ AnalyzeFindsPolicy(i, {"alice"})
        \/ ListPoliciesLooksUp(i, {"alice"})
        \/ UpdatePolicyLoads(i, {"alice"}, {DefaultPatch})
        \/ RepoCreateClears(i)
        \/ RepoCreateInserts(i)
        \/ RepoUpdateClears(i)
        \/ Commits(i)
        \/ RollsBack(i)
        \/ Responds(i)

ConcurrentStoreSpec == StoreInit /\ [][ConcurrentStoreNext]_vars

\* the request of session i has committed a new default for owner o
MadeDefaultFor(i, o) ==
    /\ session[i].at = "closed"
    /\ session[i].status \in {200, 201}
    /\ session[i].is_default
    /\ session[i].user = o

\* C17: when two overlapping requests have each made a policy the default
\* of the same owner, the committed table still has at most one default
\* for that owner
C17_ConcurrentDefaultsKeepOne ==
    \A o \in Owners :
        (MadeDefaultFor(1, o) /\ MadeDefaultFor(2, o)) =>
            Cardinality(DefaultsOf(db.rows, o)) <= 1

\* C18: policy_key is unique per owner: create_policy answers 400 only
\* when the user already has the key, lets through only keys the user does
\* not have, and no owner ever has two policies with one key
C18_KeyUniquePerOwner ==
    /\ \A i \in Sessions :
          session[i].op = "create_policy" =>
              /\ (session[i].at = "closed" /\ session[i].status = 400) =>
                     get_by_key(db.rows, session[i].policy_key, session[i].user) # {}
              /\ session[i].at = "create" =>
                     get_by_key(db.rows, session[i].policy_key, session[i].user) = {}
    /\ \A o \in Owners, k \in PolicyKeys :
          Cardinality(get_by_key(db.rows, k, o)) <= 1

\* C20: an analyze request without policy_key that is answered went on
\* with a policy of the user's own and leaves the user owning a default
\* policy; a policy list answered to a user who had no policy leaves the
\* user owning the default policy created for it
C20_OwnDefaultMaterialized ==
    \A i \in Sessions :
        (session[i].at = "closed" /\ session[i].status = 200 /\ ~session[i].failed) =>
            /\ (session[i].op = "analyze" /\ session[i].policy_key = None) =>
                   /\ session[i].used[1].owner_id = session[i].user
                   /\ DefaultsOf(db.rows, session[i].user) # {}
            /\ session[i].op = "list_policies" =>
                   \/ DefaultsOf(db.rows, session[i].user) # {}
                   \/ get_by_owner(db.rows, session[i].user) \ DefaultsOf(db.rows, session[i].user) # {}

-----------------------------------------------------------------------------
(* PolicyRepository.update on given policies and bodies                    *)

\* the dicts a roles section or a roles patch may be: "admin" absent, a
\* plain value, an empty dict or a dict of one setting; "user" absent or a
\* plain value
RoleDicts ==
    { Updated(a, u) :
        a \in {NoEntries} \cup
              {[k \in {"admin"} |-> v] :
                  v \in {Plain("x"), Dict(NoEntries),
                         Dict([f \in {"permissions"} |-> "read"]),
                         Dict([f \in {"description"} |-> "staff"])}},
        u \in {NoEntries, [k \in {"user"} |-> Plain("y")]} }

RuleLists == {<< >>, << "rule a" >>}

\* the policy the bodies are sent for
PatchedRows ==
    { [GovernancePolicy(1, "default", "alice", d, roles, context_rules)
          EXCEPT !.is_active = a] :
        d \in BOOLEAN, a \in BOOLEAN, roles \in RoleDicts, context_rules \in RuleLists }

\* what else is in the table: nothing, or the default policy of bob
OtherRows ==
    {{}, {GovernancePolicy(2, "k", "bob", TRUE, NoEntries, << >>)}}

\* PolicyUpdate bodies over roles, context_rules and the two flags
UpdatePatches ==
    { p \in [roles : {Nothing} \cup {Some(d) : d \in RoleDicts},
             context_rules : {Nothing} \cup {Some(l) : l \in RuleLists},
             is_active : {Nothing, Some(TRUE), Some(FALSE)},
             is_default : {Nothing, Some(TRUE), Some(FALSE)}] : p # NoPatch }

\* a table holding alice's policy
UpdateInit ==
    /\ pipe = ServerPipeline
    /\ AnalyzeAtRest
    /\ RoutesAtRest
    /\ \E row \in PatchedRows, others \in OtherRows :
          db = [rows |-> {row} \cup others, seq |-> 3]
    /\ session = NoSessions
    /\ EvalAtRest
    /\ TracesAtRest

\* alice sends update bodies for her policy, one request after the other
UpdateNext ==
    \/ UpdatePolicyLoads(1, {"alice"}, UpdatePatches)
    \/ RepoUpdateClears(1)
    \/ Commits(1)
    \/ Responds(1)

UpdateSpec == UpdateInit /\ [][UpdateNext]_vars

\* an update request has been answered
Updated200(i) ==
    /\ session[i].at = "closed"
    /\ session[i].op = "update_policy"
    /\ session[i].status = 200

\* C19: once an update body has been applied to a policy, applying the
\* same body again leaves every row of the table as it is
C19_UpdateIdempotent ==
    \A i \in Sessions :
        Updated200(i) =>
            update(db.rows, session[i].loaded[1].id, session[i].patch) = db.rows

\* an update that merged a nested roles dict into the policy's own and
\* took the default over from another policy
C19_Witness ==
    /\ Updated200(1)
    /\ session[1].cleared # {}
    /\ session[1].patch.roles # Nothing
    /\ \E r \in db.rows :
          /\ r.id = session[1].loaded[1].id
          /\ r.is_default
          /\ r.roles # session[1].loaded[1].roles
          /\ r.roles # session[1].patch.roles[1]
          /\ "admin" \in DOMAIN r.roles
          /\ IsDict(r.roles["admin"])
          /\ Cardinality(DOMAIN Fields(r.roles["admin"])) = 2

-----------------------------------------------------------------------------
(* Config called on its own                                                *)

\* a role the policies of the model give no entry under roles
Guest == "guest"

\* the configurations check_role_permission is called on: every roles
\* section with every functions section, and one functions section that
\* names the role without an entry
RoleConfigs ==
    [roles : RolesChoices,
     functions : FunctionsChoices \cup
                 {[f \in {Fn} |-> FunctionConfig({Guest}, NoRestrictions)]}]

\* Config.check_role_permission is called and returns
CallCheckRolePermission ==
    /\ call = NoCall
    /\ \E config \in RoleConfigs, role \in {Role, Guest}, function_name \in {Fn, OtherFn} :
         call' = [op |-> "check_role_permission", config |-> config, role |-> role,
                  function_name |-> function_name,
                  returned |-> check_role_permission(config, role, function_name)]
    /\ UNCHANGED <<analyzeVars, routeVars, storeVars, traceVars>>

\* the comparators a severity condition can start with, as token sequences;
\* the empty one is a bare severity name
Comparators == { << ">", "=" >>, << ">" >>, << "<", "=" >>, << "<" >>, << "=" >>, << >> }

\* Config.evaluate_context_rules is called on a configuration whose one
\* rule is for the function and states the severity condition
\* `comparator` followed by `required`
CallEvaluateContextRules ==
    /\ call = NoCall
    /\ \E comparator \in Comparators, required \in Severities, severity \in Severities :
         LET rule == ContextRule(Fn, {"severity"}, comparator \o << required >>,
                                 TRUE, "rule")
             config == [context_rules |-> << rule >>]
         IN  call' = [op |-> "evaluate_context_rules", comparator |-> comparator,
                      required |-> required, severity |-> severity,
                      returned |-> evaluate_context_rules(config, Fn, severity)]
    /\ UNCHANGED <<analyzeVars, routeVars, storeVars, traceVars>>

\* the caller goes on, once the method has returned
CallReturns ==
    /\ call # NoCall
    /\ "at" \in DOMAIN call => call.at = "returned"
    /\ call' = NoCall
    /\ UNCHANGED <<analyzeVars, routeVars, storeVars, traceVars>>

EvaluatorInit ==
    /\ pipe = ServerPipeline
    /\ AnalyzeAtRest
    /\ OutsideAtRest

EvaluatorNext ==
    \/ CallCheckRolePermission
    \/ CallEvaluateContextRules
    \/ CallReturns

EvaluatorSpec == EvaluatorInit /\ [][EvaluatorNext]_vars

\* the permissions a configuration lists for a role: none without an entry
PermissionsOf(config, role) ==
    IF role \in DOMAIN config.roles THEN config.roles[role].permissions ELSE {}

\* the allowed_roles a configuration lists for a function
AllowedRolesOf(config, function_name) ==
    IF function_name \in DOMAIN config.functions
    THEN config.functions[function_name].allowed_roles ELSE {}

\* C21: check_role_permission(role, fn) is true exactly when the role's
\* permissions hold "*" or fn, or fn's allowed_roles holds the role, and
\* the latter counts whether or not the role has an entry under roles
C21_RolePermitsEitherWay ==
    call.op = "check_role_permission" =>
        (call.returned <=>
            \/ Star \in PermissionsOf(call.config, call.role)
            \/ call.function_name \in PermissionsOf(call.config, call.role)
            \/ call.role \in AllowedRolesOf(call.config, call.function_name))

\* `current` stands in the relation the comparator names to `required`
Compares(comparator, current, required) ==
    LET c == severity_order(current)
        r == severity_order(required)
    IN  CASE comparator = << ">", "=" >> -> c >= r
          [] comparator = << ">" >> -> c > r
          [] comparator = << "<", "=" >> -> c <= r
          [] comparator = << "<" >> -> c < r
          [] OTHER -> c = r

\* C29: a severity condition written as one of >=, >, <=, <, = followed by
\* a severity matches exactly when the current severity stands in that
\* relation to it, in the order safe < low < medium < high < critical
C29_ComparatorsFollowSeverityOrder ==
    (call.op = "evaluate_context_rules" /\ call.comparator # << >>) =>
        ((call.returned # NoAction) <=>
            Compares(call.comparator, call.severity, call.required))

-----------------------------------------------------------------------------
(* The trace store: the tail of routes.analyze and the review route        *)

\* Bound: the trace table of the model holds at most this many rows.
MaxTraceIds == 2

\* what _analyze_quarantine returns, as far as a trace cares
QuarantineAnalysis(decision, requires_hitl) ==
    [decision |-> decision, requires_hitl |-> requires_hitl,
     hitl_reason |-> IF requires_hitl THEN "matches a review rule" ELSE ""]

\* the dict analyze returns: final_decision, blocked_at, quarantine_analysis
\* and safe_to_use, which is whether the decision is ALLOWED
final_response(final_decision, blocked_at, quarantine) ==
    [final_decision |-> final_decision, blocked_at |-> blocked_at,
     quarantine_analysis |-> quarantine,
     safe_to_use |-> final_decision = "ALLOWED"]

\* the results pipeline.analyze can hand to the route: allowed or blocked,
\* by an early gate (no quarantine result), by the probe, or by the
\* thresholds after a probe that passed
AnalyzeResults ==
    {final_response("ALLOWED", None, Nothing),
     final_response("ALLOWED_WITH_WARNING", None, Nothing),
     final_response("BLOCKED", "rbac", Nothing)}
    \cup {final_response("ALLOWED", None, Some(QuarantineAnalysis("PASS", h))) :
            h \in BOOLEAN}
    \cup {final_response("BLOCKED", "quarantine_analysis",
                         Some(QuarantineAnalysis("BLOCK", h))) : h \in BOOLEAN}
    \cup {final_response("BLOCKED", "threshold", Some(QuarantineAnalysis("PASS", h))) :
            h \in BOOLEAN}

\* _format_analyze_response: the fields of AnalyzeResponse, read from the
\* result with .get
_format_analyze_response(result) ==
    [final_decision |-> result.final_decision,
     safe_to_use |-> result.safe_to_use,
     blocked_at |-> result.blocked_at,
     quarantine_analysis |-> result.quarantine_analysis]

\* response_data.get(key) on the dumped response
ResponseGet(response_data, key) ==
    IF key \in DOMAIN response_data THEN response_data[key] ELSE None

\* the row AnalysisTraceRepository.create_trace adds
create_trace(id, user_id, response_data) ==
    [id |-> id, user_id |-> user_id,
     analysis_response |-> response_data,
     final_decision |-> response_data.final_decision,
     safe_to_use |-> response_data.safe_to_use,
     blocked_at |-> response_data.blocked_at,
     review_required |-> response_data.final_decision = "REVIEW_REQUIRED",
     hitl_reason |-> ResponseGet(response_data, "hitl_reason"),
     review_status |-> "pending", reviewed_by |-> None, review_notes |-> None]

\* the trace with the id, as a set
TraceById(rows, trace_id) == {t \in rows : t.id = trace_id}

\* routes.analyze from the return of pipeline.analyze to the try block
\* that saves the trace.  The requests analysed are alice's; both owners
\* send reviews.
AnalyzeFormatsResponse ==
    /\ job.at \in {"idle", "answered"}
    /\ \E user \in {"alice"}, result \in AnalyzeResults :
         job' = [at |-> "trace", op |-> "analyze", user |-> user, result |-> result,
                 response |-> Some(_format_analyze_response(result)),
                 status |-> 0, trace_failed |-> FALSE, was |-> Nothing]
    /\ UNCHANGED <<traces, analyzeVars, routeVars, storeVars, evalVars>>

\* AnalysisTraceRepository.create_trace adds the row and commits
CreateTrace ==
    /\ job.at = "trace"
    /\ traces.seq <= MaxTraceIds
    /\ traces' = [rows |-> traces.rows \cup
                           {create_trace(traces.seq, job.user, job.response[1])},
                  seq |-> traces.seq + 1]
    /\ job' = [job EXCEPT !.at = "return"]
    /\ UNCHANGED <<analyzeVars, routeVars, storeVars, evalVars>>

\* a handler whose try block has no except clause holds no response
AfterTraceErrorRaised(held) == Nothing

\* what the handler holds as its response once the try block has raised:
\* the except clause logs and goes on
AfterTraceError(held) == held

\* create_trace raises (the database is away, the commit fails): nothing
\* is added
CreateTraceFails ==
    /\ job.at = "trace"
    /\ job' = [job EXCEPT !.at = "return", !.trace_failed = TRUE,
                          !.response = AfterTraceError(job.response)]
    /\ UNCHANGED <<traces, analyzeVars, routeVars, storeVars, evalVars>>

\* routes.analyze returns its response, or 500 when it has none
AnalyzeReturns ==
    /\ job.at = "return"
    /\ job' = [job EXCEPT !.at = "answered",
                          !.status = IF job.response = Nothing THEN 500 ELSE 200]
    /\ UNCHANGED <<traces, analyzeVars, routeVars, storeVars, evalVars>>

\* the review statuses a client may send: the three valid ones and pending
SentStatuses == {"approved", "rejected", "reviewed", "pending"}

\* the answer of the review route
Reviewed(user, trace_id, sent, status, was) ==
    [at |-> "answered", op |-> "review", user |-> user, trace_id |-> trace_id,
     sent |-> sent, status |-> status, was |-> was]

\* AnalysisTraceRepository.update_review_status on the row
update_review_status(trace, status, reviewed_by, notes) ==
    [trace EXCEPT !.review_status = status, !.reviewed_by = reviewed_by,
                  !.review_notes = notes]

\* the route update_review_status, from the request to its answer
UpdateReviewStatus ==
    /\ job.at \in {"idle", "answered"}
    /\ \E user \in Owners, trace_id \in 1..MaxTraceIds, sent \in SentStatuses :
         LET found == TraceById(traces.rows, trace_id) IN
         IF sent \notin {"approved", "rejected", "reviewed"}
         THEN /\ job' = Reviewed(user, trace_id, sent, 400, Nothing)
              /\ UNCHANGED traces
         ELSE IF found = {}
         THEN /\ job' = Reviewed(user, trace_id, sent, 404, Nothing)
              /\ UNCHANGED traces
         ELSE LET trace == CHOOSE t \in found : TRUE IN
              IF trace.user_id # user
              THEN /\ job' = Reviewed(user, trace_id, sent, 403, Some(trace))
                   /\ UNCHANGED traces
              ELSE /\ traces' = [traces EXCEPT !.rows =
                          (@ \ {trace}) \cup {update_review_status(trace, sent, user, None)}]
                   /\ job' = Reviewed(user, trace_id, sent, 200, Some(trace))
    /\ UNCHANGED <<analyzeVars, routeVars, storeVars, evalVars>>

TraceInit ==
    /\ pipe = ServerPipeline
    /\ AnalyzeAtRest
    /\ OutsideAtRest

TraceNext ==
    \/ AnalyzeFormatsResponse
    \/ CreateTrace
    \/ CreateTraceFails
    \/ AnalyzeReturns
    \/ UpdateReviewStatus

TraceSpec == TraceInit /\ [][TraceNext]_vars

\* a review request has just been answered 200
ReviewDone == job.at = "answered" /\ job.op = "review" /\ job.status = 200

\* the row the answered review request was about, as it is now
ReviewedRow == CHOOSE t \in traces.rows : t.id = job.trace_id

\* C22: the review_status of a trace only goes from pending to approved,
\* rejected or reviewed: a trace that was no longer pending keeps its
\* status, no trace returns to pending, and a review changes nothing of
\* the recorded analysis
C22_ReviewOnlyFromPending ==
    ReviewDone =>
        /\ job.was[1].review_status # "pending" =>
               ReviewedRow.review_status = job.was[1].review_status
        /\ ReviewedRow.review_status \in {"approved", "rejected", "reviewed"}
        /\ ReviewedRow.analysis_response = job.was[1].analysis_response
        /\ ReviewedRow.final_decision = job.was[1].final_decision
        /\ ReviewedRow.review_required = job.was[1].review_required

\* an analyze request has been answered
AnalyzeAnswered == job.at = "answered" /\ job.op = "analyze"

\* C23: the handler reaches its return only through the attempt to save
\* the trace, and the answer is the formatted result of the run whether
\* the save succeeded or raised
C23_TraceFailureKeepsResponse ==
    AnalyzeAnswered =>
        /\ job.status = 200
        /\ job.response = Some(_format_analyze_response(job.result))
        /\ job.trace_failed \/
               \E t \in traces.rows : /\ t.user_id = job.user
                                      /\ t.analysis_response = job.response[1]

\* an analyze request whose trace could not be saved has been answered
C23_Witness ==
    /\ AnalyzeAnswered
    /\ job.trace_failed
    /\ job.result.final_decision = "BLOCKED"

\* the probe's requires_hitl as a stored trace reports it
ProbeAsksReview(t) == t.analysis_response.quarantine_analysis[1].requires_hitl

\* C24: a stored trace of a run whose probe ran carries the probe's
\* requires_hitl as review_required: true for a run that was not blocked
\* and whose probe asked for review, false when the probe did not ask
C24_ReviewRequiredFollowsProbe ==
    \A t \in traces.rows :
        t.analysis_response.quarantine_analysis # Nothing =>
            /\ (ProbeAsksReview(t) /\ t.final_decision # "BLOCKED") => t.review_required
            /\ ~ProbeAsksReview(t) => ~t.review_required

-----------------------------------------------------------------------------
(* The keyword detector and its gate, on the default keyword list          *)

\* Bound: how many default keywords of one category the function result
\* of a detector call holds.
MaxDefaultKeywords == 2

\* what the default list can find: every default keyword falls under one
\* of the five named categories
DefaultListFindings ==
    {found \in [Categories -> 0..MaxDefaultKeywords] : found["other"] = 0}

\* a request with keyword detection, with or without input analysis
KeywordRequest(input_analysis) ==
    [DefaultRequest EXCEPT !.enable_keyword_detection = TRUE,
                           !.input_analysis = input_analysis]

\* analyze without a policy, from "Keyword Detection (if enabled)" to the
\* keyword check: the detector's result and what the gates up to the
\* keyword check answer
CallDetectKeywords ==
    /\ call = NoCall
    /\ \E found \in DefaultListFindings, input_analysis \in BOOLEAN,
          result_score \in ClassifierScores :
         LET r == KeywordRequest(input_analysis)
             keyword == _detect_keywords(found)
             input == IF input_analysis
                      THEN _analyze_input(Pct(2), Nothing, result_score)
                      ELSE InputSkipped
         IN  call' = [op |-> "_detect_keywords", found |-> found,
                      input_analysis |-> input_analysis, input |-> input,
                      returned |-> keyword,
                      gate |-> InputGates(FALSE, DefaultPolicy, r, input, keyword)]
    /\ UNCHANGED <<analyzeVars, routeVars, storeVars, traceVars>>

KeywordInit ==
    /\ pipe = ServerPipeline
    /\ AnalyzeAtRest
    /\ OutsideAtRest

KeywordNext ==
    \/ CallDetectKeywords
    \/ CallReturns

KeywordSpec == KeywordInit /\ [][KeywordNext]_vars

\* C25: with keyword detection on and the default list, a function result
\* holding at least two action-triggering keywords and at least one
\* financial keyword, and not stopped by an earlier gate, gets a
\* risk_score of at least 0.4 and severity high and is answered BLOCKED
\* with blocked_at = keyword_detection
C25_ActionAndFinancialKeywordsBlock ==
    (/\ call.op = "_detect_keywords"
     /\ call.found["action_triggering"] >= 2
     /\ call.found["financial"] >= 1
     /\ call.gate.blocked_at # "input_analysis")
    => /\ call.returned.risk_score >= Pct(40)
       /\ call.returned.severity = "high"
       /\ call.gate.final_decision = "BLOCKED"
       /\ call.gate.blocked_at = "keyword_detection"

-----------------------------------------------------------------------------
(* The analyst's verdict and the probe after it                            *)

\* the analyst answered, and its decision is BLOCK
AnalystBlocked ==
    /\ llm_analysis_result.present
    /\ ~llm_analysis_result.error
    /\ llm_analysis_result.decision = "BLOCK"

\* C26: when the analyst's decision for a request is BLOCK, the request is
\* answered BLOCKED, whether the quarantine probe after it passes, blocks,
\* is skipped or fails
C26_AnalystBlockIsFinal ==
    (Done /\ AnalystBlocked) => IsBlocked

-----------------------------------------------------------------------------
(* _analyze_with_llm_agent on its own, with what it sends and gets back    *)

\* the custom prompts the route handler may have put on the pipeline
AnalystCustomPrompts ==
    {Nothing, Some(NoEntries),
     Some([k \in {"llm_agent_system_prompt"} |-> "policy prompt"]),
     Some([k \in {"llm_agent_system_prompt"} |-> "shield prompt"])}

\* self.llm_agent_system_prompt once analyze has switched the analyst on:
\* the default text, or the one of the configuration file
AgentSystemPrompts == {"default prompt", "file prompt"}

\* the system prompt of the json_schema call: the custom one when the
\* custom prompts hold one
SchemaCallPrompt(c) ==
    IF /\ c.custom_prompts # Nothing
       /\ "llm_agent_system_prompt" \in DOMAIN c.custom_prompts[1]
    THEN c.custom_prompts[1]["llm_agent_system_prompt"]
    ELSE c.llm_agent_system_prompt

\* the system prompt of the json_object call and of the unformatted call
FallbackCallPrompt(c) == c.llm_agent_system_prompt

\* what the unformatted call can answer: prose, or prose around a JSON
\* object that states the verdict
PlainTexts ==
    {[json |-> Nothing]} \cup {[json |-> Some(answer)] : answer \in AnalystAnswers}

\* one completer call of the analyst
Sent(format, system_prompt, outcome) ==
    [format |-> format, system_prompt |-> system_prompt, outcome |-> outcome]

\* the call after one more completer call that ended it with `result`
AnalystEnds(c, sent, result) ==
    [c EXCEPT !.at = "returned", !.sent = Append(@, sent), !.returned = Some(result)]

\* the call after one more completer call that sends it on to `at`
AnalystGoesOn(c, sent, at) == [c EXCEPT !.at = at, !.sent = Append(@, sent)]

\* analyze calls _analyze_with_llm_agent
AnalystStarts ==
    /\ call = NoCall
    /\ \E custom_prompts \in AnalystCustomPrompts, prompt \in AgentSystemPrompts,
          quick_mode \in BOOLEAN :
         call' = [op |-> "_analyze_with_llm_agent", at |-> "json_schema",
                  custom_prompts |-> custom_prompts,
                  llm_agent_system_prompt |-> prompt, quick_mode |-> quick_mode,
                  sent |-> << >>, text |-> [json |-> Nothing], returned |-> Nothing]
    /\ UNCHANGED <<analyzeVars, routeVars, storeVars, traceVars>>

\* the json_schema call
AnalystTriesSchema ==
    /\ call # NoCall /\ call.op = "_analyze_with_llm_agent" /\ call.at = "json_schema"
    /\ LET made(outcome) == Sent("json_schema", SchemaCallPrompt(call), outcome) IN
       \/ \E answer \in AnalystAnswers :
            call' = AnalystEnds(call, made("ok"), AnalystResult(answer, call.quick_mode))
       \/ call' = AnalystEnds(call, made("timeout"), AnalystTimedOut)
       \/ call' = AnalystGoesOn(call, made("rejected"), "json_object")
       \/ call' = AnalystGoesOn(call, made("raised"), "unformatted")
    /\ UNCHANGED <<analyzeVars, routeVars, storeVars, traceVars>>

\* the json_object call
AnalystTriesJson ==
    /\ call # NoCall /\ call.op = "_analyze_with_llm_agent" /\ call.at = "json_object"
    /\ LET made(outcome) == Sent("json_object", FallbackCallPrompt(call), outcome) IN
       \/ \E answer \in AnalystAnswers :
            call' = AnalystEnds(call, made("ok"), AnalystResult(answer, call.quick_mode))
       \/ call' = AnalystEnds(call, made("timeout"), AnalystTimedOut)
       \/ call' = AnalystGoesOn(call, made("raised"), "unformatted")
    /\ UNCHANGED <<analyzeVars, routeVars, storeVars, traceVars>>

\* the unformatted call: whatever the text says, the result is the fixed
\* fallback verdict
AnalystTriesPlain ==
    /\ call # NoCall /\ call.op = "_analyze_with_llm_agent" /\ call.at = "unformatted"
    /\ LET made(outcome) == Sent("unformatted", FallbackCallPrompt(call), outcome) IN
       \/ \E text \in PlainTexts :
            call' = [AnalystEnds(call, made("ok"), AnalystFallback(call.quick_mode))
                        EXCEPT !.text = text]
       \/ call' = AnalystEnds(call, made("timeout"), AnalystTimedOut)
       \/ call' = AnalystEnds(call, made("raised"), AnalystFailed)
    /\ UNCHANGED <<analyzeVars, routeVars, storeVars, traceVars>>

AnalystInit ==
    /\ pipe = ServerPipeline
    /\ AnalyzeAtRest
    /\ OutsideAtRest

AnalystNext ==
    \/ AnalystStarts
    \/ AnalystTriesSchema
    \/ AnalystTriesJson
    \/ AnalystTriesPlain
    \/ CallReturns

AnalystSpec == AnalystInit /\ [][AnalystNext]_vars

\* the analyst is being called
AnalystCalled == call # NoCall /\ call.op = "_analyze_with_llm_agent"

\* both formatted attempts were turned down, neither by a timeout, and the
\* unformatted call answered
PlainCallAnswered ==
    /\ AnalystCalled /\ call.at = "returned"
    /\ Len(call.sent) = 3
    /\ call.sent[1].outcome = "rejected"
    /\ call.sent[2].outcome = "raised"
    /\ call.sent[3].outcome = "ok"

\* C27: when both formatted attempts are rejected without a timeout and
\* the text of the unformatted retry holds a JSON object, the stage result
\* has the decision and the score of that object
C27_PlainRetryParsesVerdict ==
    (PlainCallAnswered /\ call.text.json # Nothing) =>
        /\ call.returned[1].decision = call.text.json[1].decision
        /\ call.returned[1].score = call.text.json[1].score

\* C28: all the completer calls the analyst makes for one request carry
\* the same system prompt
C28_OneSystemPromptPerRequest ==
    AnalystCalled =>
        \A i, j \in 1..Len(call.sent) :
            call.sent[i].system_prompt = call.sent[j].system_prompt

\* ---------------------------------------------------------------------
\* Making a policy the default, seen from the other owners
\* ---------------------------------------------------------------------

\* the rows whose is_default the answered request of session i set to
\* False while it made a policy the default
ClearedRows(i) == {r \in db.rows : r.id \in session[i].cleared}

\* C30: a create or update of owner A with is_default = true changes
\* is_default only on policies owned by A: every row the request cleared
\* belongs to A, so no other owner's default loses its flag
C30_DefaultChangeStaysWithOwner ==
    \A i \in Sessions, o \in Owners :
        MadeDefaultFor(i, o) => \A r \in ClearedRows(i) : r.owner_id = o

====
